---------------------------- MODULE Spec2Model ----------------------------
(***************************************************************************)
(* node-multihost: domain routing, SPA dispatch, dynamic module loading,   *)
(* microserver lifecycle and shutdown, modelled from                        *)
(*   src/server/server-routing.js      (setupDomainRouting)                 *)
(*   src/server/MicroserverManager.js  (MicroserverManager)                 *)
(*   src/server/ServerManager.js       (ServerManager)                      *)
(*   src/server/ErrorHandler.js        (ErrorHandler)                       *)
(*   src/unnamed/part_010              (server.js, startApplication)        *)
(*                                                                         *)
(* Strings the code inspects character by character (Host headers, domain  *)
(* keys, request urls, skipSPA prefixes) are sequences of one-character    *)
(* strings.  Names the code only compares for equality are TLA+ strings.   *)
(*                                                                         *)
(* The specifications share the variables:                                 *)
(*   SpecRouting     : the request pipeline over a loaded configuration    *)
(*   Spec            : the process lifecycle (startup, running, shutdown)  *)
(*   SpecUndisturbed : the lifecycle with no signal and no outside fault   *)
(*   SpecLive        : the lifecycle with timers that fire when due        *)
(*   SpecHealth      : the request pipeline over any pair of loaded modules*)
(*   SpecConfig      : the request pipeline under any NODE_ENV             *)
(*   SpecConcurrent  : two requests in the pipeline at once                *)
(*   SpecServing     : the lifecycle with the listener's requests          *)
(*   SpecCalls       : the lifecycle with further initialise()/start()     *)
(*   SpecStart       : the lifecycle with further start() calls            *)
(***************************************************************************)
EXTENDS Integers, Sequences, FiniteSets, TLC

VARIABLES
    \* the environment of the process
    files,              \* the two servers.config.json locations and their documents
    modules,            \* what import() of each server's backend file yields
    nodeEnv,            \* process.env.NODE_ENV
    repeats,            \* further calls of initialise() / start(), in call order
    \* server-routing.js
    config,             \* ServerManager.config / setupDomainRouting's config
    domainMap,          \* setupDomainRouting's domainMap (own properties)
    reqs,               \* the requests in the pipeline, by request id
    \* MicroserverManager
    setupFunctions,     \* Map: setup function name -> loaded initializer
    instances,          \* Map: server name -> {instance, config, setupFunction}
    isLoaded,
    loadedModuleCount,
    failedModuleCount,
    \* ServerManager
    isInitialised,
    isRunning,
    listening,          \* the http.Server accepts connections
    keepAlive,          \* the ServerKeepAlive timer runs
    \* the control state of startApplication and of the process
    pc,                 \* where startApplication / initialise / start stands
    cursor,             \* index into config.servers of the running for-of loop
    invocations,        \* every call of a setup function, in order
    promises,           \* the promises returned by async setup functions
    exitCode,           \* -1 while the process runs, else its exit code
    \* ErrorHandler and the shutdown in progress
    handlersInstalled,  \* setupHandlers has run (process.on(...))
    faulted,            \* handleUncaughtException / handleUnhandledRejection has run
    isShuttingDown,
    shutdownMode,       \* "none", "graceful" (signal) or "emergency" (fault)
    shutdownTimer,      \* the 30s / 5s setTimeout: off, armed, cleared, fired
    smShutdown,         \* ServerManager.gracefulShutdown: idle, cleanup, closing,
                        \*   done, threw
    shutdownCalls,      \* calls of ServerManager.gracefulShutdown so far
    cleanups,           \* per instance: calls of its cleanup and the result's state
    forceExits          \* exit codes of pending forceExit timers, oldest first

envVars == <<files, modules, nodeEnv, repeats>>
routingVars == <<config, domainMap, reqs>>
managerVars == <<setupFunctions, instances, isLoaded, loadedModuleCount,
                 failedModuleCount>>
serverVars == <<isInitialised, isRunning, listening, keepAlive>>
controlVars == <<pc, cursor, invocations, promises, exitCode>>
shutdownVars == <<handlersInstalled, faulted, isShuttingDown, shutdownMode, shutdownTimer,
                  smShutdown, shutdownCalls, cleanups, forceExits>>
lifecycleVars == <<envVars, managerVars, serverVars, controlVars, shutdownVars>>
vars == <<lifecycleVars, routingVars>>

-----------------------------------------------------------------------------
(* Bounds *)

MaxServers == 2          \* entries of config.servers
MaxHostLen == 2          \* letters and colons of a Host header, before its port
MaxUrlLen == 3           \* characters of a request url
MaxRepeats == 2          \* calls of initialise() / start() beyond startApplication's

-----------------------------------------------------------------------------
(* Strings *)

RECURSIVE SeqsUpTo(_, _)
SeqsUpTo(S, n) ==
    IF n = 0 THEN {<<>>}
    ELSE LET shorter == SeqsUpTo(S, n - 1)
         IN  shorter \cup {Append(s, c) : s \in {t \in shorter : Len(t) = n - 1}, c \in S}

\* String.prototype.startsWith
StartsWith(s, p) == Len(p) <= Len(s) /\ SubSeq(s, 1, Len(p)) = p

\* String.prototype.split(':')[0]: the text before the first ':'
RECURSIVE SplitColonFirst(_)
SplitColonFirst(s) ==
    IF s = <<>> \/ Head(s) = ":" THEN <<>>
    ELSE <<Head(s)>> \o SplitColonFirst(Tail(s))

HostChars == {"a", "A", ":"}
NameChars == {"a", "A"}
UrlChars == {"/", "x"}

LOCALHOST == <<"l", "o", "c", "a", "l", "h", "o", "s", "t">>
KeyDefault == <<"d", "e", "f", "a", "u", "l", "t">>
KeyValueOf == <<"v", "a", "l", "u", "e", "O", "f">>
KeyConstructor == <<"c", "o", "n", "s", "t", "r", "u", "c", "t", "o", "r">>

\* Property names every JavaScript object inherits from Object.prototype:
\* domainMap is created as {} and read with domainMap[domain].
ObjectPrototypeKeys == {KeyValueOf, KeyConstructor}

\* JavaScript values a domainMap lookup can produce besides a server name
Undefined == "<undefined>"
Inherited == "<Object.prototype member>"

\* The Host header of a request: absent, or any text
NoHost == <<"<absent>">>
Hosts ==
    SeqsUpTo(HostChars, MaxHostLen)
        \cup {name \o <<":", "8">> : name \in SeqsUpTo(NameChars, MaxHostLen)}
        \cup {NoHost, LOCALHOST, LOCALHOST \o <<":", "8">>, KeyDefault, KeyValueOf,
              KeyConstructor}

UrlHealth == <<"/", "a", "p", "i", "/", "h", "e", "a", "l", "t", "h">>
UrlConfig == <<"/", "a", "p", "i", "/", "c", "o", "n", "f", "i", "g">>
PrefixApi == <<"/", "a", "p", "i", "/">>

\* req.url of a GET request: always starts with '/'
Urls ==
    {<<"/">> \o u : u \in SeqsUpTo(UrlChars, MaxUrlLen - 1)} \cup {UrlHealth, UrlConfig}

\* req.query.debug_token: absent, empty, or some text; only /api/config reads it
Tokens == {Undefined, "", "t", "u"}
TokensOf(url) == IF url = UrlConfig THEN Tokens ELSE {Undefined}

\* process.env.NODE_ENV: a deployment sets it to 'production'
Environments == {"production", "development", Undefined}

-----------------------------------------------------------------------------
(* Configuration documents (servers.config.json) *)

\* One entry of config.servers: id, name, domains, paths.public, paths.html,
\* server.skipSPA, server.setupFunction
Server(id, name, domains, skipSPA, setupFunction) ==
    [id |-> id, name |-> name, domains |-> domains, skipSPA |-> skipSPA,
     public |-> <<"public-dir-of", id>>, html |-> <<"html-file-of", id>>,
     setupFunction |-> setupFunction]

DomA == <<"a">>
DomAA == <<"a", "a">>
DomUpperA == <<"A">>
DomWithPort == <<"a", ":", "8">>

AlphaDomainLists ==
    {<<DomA>>, <<DomA, DomAA>>, <<DomUpperA>>, <<KeyDefault>>, <<DomWithPort>>,
     <<LOCALHOST>>}
BetaDomainLists == {<<DomAA>>, <<DomA>>, <<DomAA, DomA>>}
AlphaSkip == <<<<"/", "x">>>>
BetaSkipLists == {<<>>, <<<<"/", "x", "/">>, <<"/", "/">>, PrefixApi>>}
DefaultNames == {"alpha", "beta", "ghost"}

RoutingConfigs ==
    {[servers |-> <<Server(1, "alpha", d1, AlphaSkip, "setupAlpha"),
                    Server(2, "beta", d2, s2, "setupBeta")>>,
      default |-> [serverId |-> 1, serverName |-> dn]] :
        d1 \in AlphaDomainLists, d2 \in BetaDomainLists,
        s2 \in BetaSkipLists, dn \in DefaultNames}

NoConfig == [servers |-> <<>>, default |-> [serverId |-> 0, serverName |-> Undefined]]

-----------------------------------------------------------------------------
(* setupDomainRouting: the domain map *)

EmptyObject == [k \in {} |-> Undefined]

\* obj[key] = value
SetProperty(obj, key, value) ==
    [k \in DOMAIN obj \cup {key} |-> IF k = key THEN value ELSE obj[k]]

\* obj[key] read on an object created as {}
GetProperty(obj, key) ==
    IF key \in DOMAIN obj THEN obj[key]
    ELSE IF key \in ObjectPrototypeKeys THEN Inherited
    ELSE Undefined

\* JavaScript truthiness of the values above (a||b picks b when a is falsy)
Truthy(v) == v # Undefined /\ v # ""

\* A domain map that keeps the first application to declare a domain
AssignDomainKeepFirst(map, domain, name) ==
    IF domain \in DOMAIN map THEN map ELSE SetProperty(map, domain, name)

\* domainMap[domain] = server.name
AssignDomain(map, domain, name) == SetProperty(map, domain, name)

\* A map built from the first domain of each application only
ForEachDomainFirstOnly(map, name, domains) ==
    IF domains = <<>> THEN map ELSE AssignDomain(map, Head(domains), name)

RECURSIVE ForEachDomain(_, _, _)
ForEachDomain(map, name, domains) ==
    IF domains = <<>> THEN map
    ELSE ForEachDomain(AssignDomain(map, Head(domains), name), name, Tail(domains))

RECURSIVE ForEachServer(_, _)
ForEachServer(map, servers) ==
    IF servers = <<>> THEN map
    ELSE ForEachServer(ForEachDomain(map, Head(servers).name, Head(servers).domains),
                       Tail(servers))

BuildDomainMap(cfg) ==
    SetProperty(ForEachServer(EmptyObject, cfg.servers), KeyDefault,
                cfg.default.serverName)

\* A lookup that falls back to the first application
FindServerOrFirst(cfg, name) ==
    LET hits == {i \in 1..Len(cfg.servers) : cfg.servers[i].name = name}
    IN  IF hits = {} THEN 1 ELSE CHOOSE i \in hits : \A j \in hits : i <= j

\* config.servers.find(s => s.name === name): the first match, 0 for undefined
FindServer(cfg, name) ==
    LET hits == {i \in 1..Len(cfg.servers) : cfg.servers[i].name = name}
    IN  IF hits = {} THEN 0 ELSE CHOOSE i \in hits : \A j \in hits : i <= j

\* req.get('host') || req.headers.host || 'localhost'
FullHost(host) == IF host = NoHost \/ host = <<>> THEN LOCALHOST ELSE host

\* domainMap[domain] || domainMap['default']
ResolveTarget(map, domain) ==
    IF Truthy(GetProperty(map, domain)) THEN GetProperty(map, domain)
    ELSE GetProperty(map, KeyDefault)

\* A skip test that wants every pattern to match
ShouldSkipEvery(server, url) ==
    \A k \in 1..Len(server.skipSPA) : StartsWith(url, server.skipSPA[k])

\* serverConfig.server.skipSPA.some(skipPath => req.url.startsWith(skipPath))
ShouldSkip(server, url) ==
    \E k \in 1..Len(server.skipSPA) : StartsWith(url, server.skipSPA[k])

\* An HTML path taken from the first application whatever the target is
FullHtmlPathOfFirst(server) ==
    <<"<cwd>", "dist", "public", <<"public-dir-of", 1>>, <<"html-file-of", 1>>>>

\* path.join(process.cwd(), 'dist', 'public', path.join(paths.public, paths.html))
FullHtmlPath(server) == <<"<cwd>", "dist", "public", server.public, server.html>>

-----------------------------------------------------------------------------
(* The request pipeline: app.use order of ServerManager.initialise *)

NoFile == <<>>
NoStats == <<>>

IdleRequest ==
    [pc |-> "idle", host |-> NoHost, url |-> <<"/">>, token |-> Undefined,
     fullHost |-> <<>>, domain |-> <<>>, targetModule |-> Undefined, serverIdx |-> 0,
     spaDecision |-> "none", htmlPath |-> NoFile,
     answeredBy |-> "none", answeredApp |-> Undefined, status |-> 0, body |-> "",
     bodyModule |-> Undefined, file |-> NoFile, stats |-> NoStats]

\* A request arrives on the shared listener
Receive(r, host, url, token) ==
    /\ reqs' = [reqs EXCEPT ![r] = [IdleRequest EXCEPT !.pc = "basic",
                                                      !.host = host, !.url = url,
                                                      !.token = token]]
    /\ UNCHANGED <<config, domainMap, lifecycleVars>>

\* express.json(), express.urlencoded(), express.static('dist'): registered by
\* setupMiddlewares before setupDomainRouting installs its middlewares
BasicMiddlewares(r) ==
    /\ reqs[r].pc = "basic"
    /\ \/ reqs' = [reqs EXCEPT ![r].pc = "domain"]
       \/ reqs' = [reqs EXCEPT ![r].pc = "done", ![r].status = 400,
                               ![r].answeredBy = "basic",
                               ![r].body = "body parse error"]
       \/ reqs' = [reqs EXCEPT ![r].pc = "done", ![r].status = 200,
                               ![r].answeredBy = "basic",
                               ![r].body = "static file",
                               ![r].file = <<"dist">> \o reqs[r].url]
    /\ UNCHANGED <<config, domainMap, lifecycleVars>>

\* A middleware that keeps the routing context in a variable of the enclosing
\* function instead of on the request: every request in flight sees the
\* context of the latest one
DomainDetectionShared(r) ==
    /\ reqs[r].pc = "domain"
    /\ LET fullHost == FullHost(reqs[r].host)
           domain == SplitColonFirst(fullHost)
           targetModule == ResolveTarget(domainMap, domain)
       IN  reqs' = [q \in DOMAIN reqs |->
                      IF q = r
                      THEN [reqs[r] EXCEPT !.pc = "spa", !.fullHost = fullHost,
                                           !.domain = domain,
                                           !.targetModule = targetModule,
                                           !.serverIdx = FindServer(config, targetModule)]
                      ELSE IF reqs[q].pc = "spa"
                      THEN [reqs[q] EXCEPT !.targetModule = targetModule,
                                           !.serverIdx = FindServer(config, targetModule)]
                      ELSE reqs[q]]
    /\ UNCHANGED <<config, domainMap, lifecycleVars>>

\* The domain detection middleware
DomainDetection(r) ==
    /\ reqs[r].pc = "domain"
    /\ LET fullHost == FullHost(reqs[r].host)
           domain == SplitColonFirst(fullHost)
           targetModule == ResolveTarget(domainMap, domain)
       IN  reqs' = [reqs EXCEPT ![r].pc = "spa",
                                ![r].fullHost = fullHost,
                                ![r].domain = domain,
                                ![r].targetModule = targetModule,
                                ![r].serverIdx = FindServer(config, targetModule)]
    /\ UNCHANGED <<config, domainMap, lifecycleVars>>

\* The SPA catchall middleware; fileExists is fs.existsSync(fullHtmlPath)
SpaCatchall(r, fileExists) ==
    /\ reqs[r].pc = "spa"
    /\ LET idx == FindServer(config, reqs[r].targetModule)
       IN  IF idx = 0
           THEN reqs' = [reqs EXCEPT ![r].pc = "done", ![r].spaDecision = "error",
                                     ![r].answeredBy = "spa", ![r].status = 500,
                                     ![r].body = "Server configuration error - microserver not found"]
           ELSE IF ShouldSkip(config.servers[idx], reqs[r].url)
           THEN reqs' = [reqs EXCEPT ![r].pc = "next", ![r].spaDecision = "skip"]
           ELSE IF ~fileExists
           THEN reqs' = [reqs EXCEPT ![r].pc = "done", ![r].spaDecision = "missing",
                                     ![r].htmlPath = FullHtmlPath(config.servers[idx]),
                                     ![r].answeredBy = "spa", ![r].status = 404,
                                     ![r].body = "HTML file not found for microserver: ",
                                     ![r].bodyModule = reqs[r].targetModule]
           ELSE reqs' = [reqs EXCEPT ![r].pc = "done", ![r].spaDecision = "serve",
                                     ![r].htmlPath = FullHtmlPath(config.servers[idx]),
                                     ![r].answeredBy = "spa", ![r].status = 200,
                                     ![r].body = "sendFile",
                                     ![r].file = FullHtmlPath(config.servers[idx])]
    /\ UNCHANGED <<config, domainMap, lifecycleVars>>

\* What a route that a setup function registered tests before it answers:
\* req.targetModule against its own application's name, as the integration
\* guide's setupMynewserver does, or nothing, as DailySmartyAPI.setupRoutes does
RouteGuards == {"targetModule", "none"}

\* The applications whose setup function has been invoked: it registered its
\* routes on the shared app
Registrants == {invocations[n].server : n \in DOMAIN invocations}

\* The routes the microservers' setup functions registered on the shared app
\* (after the SPA catchall, before the health endpoints): one of them answers
\* the request, or none matches
ApplicationHandlers(r) ==
    /\ reqs[r].pc = "next"
    /\ \/ \E i \in Registrants, guard \in RouteGuards, st \in {200, 404} :
            /\ guard = "targetModule" => reqs[r].targetModule = config.servers[i].name
            /\ reqs' = [reqs EXCEPT ![r].pc = "done", ![r].answeredBy = "app",
                                    ![r].answeredApp = config.servers[i].name,
                                    ![r].status = st,
                                    ![r].body = "application response"]
       \/ reqs' = [reqs EXCEPT ![r].pc = "health"]
    /\ UNCHANGED <<config, domainMap, lifecycleVars>>

\* The response is sent and the request object discarded
Discard(r) ==
    /\ reqs[r].pc = "done"
    /\ reqs' = [reqs EXCEPT ![r] = IdleRequest]
    /\ UNCHANGED <<config, domainMap, lifecycleVars>>

-----------------------------------------------------------------------------
(* The environment: configuration files and backend modules *)

\* /etc/secrets/servers.config.json and ../servers.config.json: absent, valid
\* (readable JSON) or broken (unreadable or unparsable)
FileStates ==
    {[secret |-> a, local |-> b] :
        a \in {"valid", "broken", "absent"}, b \in {"valid", "broken", "absent"}}

ServerNames == <<"alpha", "beta", "gamma", "delta">>
FunctionNames == {"setupOne", "setupTwo"}

\* The i-th lifecycle server listens on the domain made of i letters a; the
\* first server's setup function is called setupOne, the others' either name
RECURSIVE Letters(_)
Letters(n) == IF n = 0 THEN <<>> ELSE <<"a">> \o Letters(n - 1)

LifecycleConfigs ==
    UNION {{[servers |-> [i \in 1..n |-> Server(i, ServerNames[i], <<Letters(i)>>,
                                                AlphaSkip, f[i])],
             default |-> [serverId |-> 1, serverName |-> "alpha"]] :
               f \in {g \in [1..n -> FunctionNames] : n > 0 => g[1] = "setupOne"}} :
           n \in 0..MaxServers}

\* What the local file holds when the secret file holds the configuration: a
\* document of its own, left over from development
StaleDocument ==
    [servers |-> <<Server(7, "stale", <<DomUpperA>>, AlphaSkip, "setupOne")>>,
     default |-> [serverId |-> 7, serverName |-> "stale"]]

\* What a microserver instance (the object a setup function returns) exposes:
\* cleanup is absent ("none") or a function that returns a plain value, throws,
\* or returns a promise that fulfils, rejects or never settles; getStats is
\* absent or a function that returns or throws.
HandleKinds ==
    {[cleanup |-> "none", getStats |-> "none"],
     [cleanup |-> "returns", getStats |-> "returns"],
     [cleanup |-> "throws", getStats |-> "throws"],
     [cleanup |-> "fulfils", getStats |-> "returns"],
     [cleanup |-> "rejects", getStats |-> "none"],
     [cleanup |-> "hangs", getStats |-> "returns"]}

NoHandle == [cleanup |-> "none", getStats |-> "none"]
AsyncHandle == [cleanup |-> "fulfils", getStats |-> "returns"]

\* What import(serverFilePath) and the export named setupFunction are:
\*   import "missing": import() rejects (ERR_MODULE_NOT_FOUND)
\*   export "absent": the module has no function of that name
\*   export "sync": a plain function; "async": an async function
\*   outcome: it returns its handle / fulfils with it, or throws / rejects
ModuleKinds ==
    {[import |-> "missing", export |-> "absent", outcome |-> "throws", handle |-> NoHandle],
     [import |-> "ok", export |-> "absent", outcome |-> "throws", handle |-> NoHandle],
     [import |-> "ok", export |-> "sync", outcome |-> "throws", handle |-> NoHandle],
     [import |-> "ok", export |-> "async", outcome |-> "throws", handle |-> NoHandle],
     [import |-> "ok", export |-> "async", outcome |-> "returns", handle |-> AsyncHandle]}
    \cup {[import |-> "ok", export |-> "sync", outcome |-> "returns", handle |-> h] :
            h \in HandleKinds}

\* A module whose setup function returns a handle with plain cleanup and getStats
SyncModule ==
    [import |-> "ok", export |-> "sync", outcome |-> "returns",
     handle |-> [cleanup |-> "returns", getStats |-> "returns"]]

-----------------------------------------------------------------------------
(* MicroserverManager: loading and setup *)

EmptyMap == [k \in {} |-> 0]

\* Map.prototype.set
MapSet(map, key, value) ==
    [k \in DOMAIN map \cup {key} |-> IF k = key THEN value ELSE map[k]]

\* A registry that keeps the first function registered under a name
RegisterSetupFunctionOnce(map, name, origin) ==
    IF name \in DOMAIN map THEN map ELSE MapSet(map, name, origin)

\* this.setupFunctions.set(setupFunctionName, setupFunction): the function is
\* identified by the application whose module exports it
RegisterSetupFunction(map, name, origin) == MapSet(map, name, origin)

\* A loader that registers whatever the configuration names
ImportSucceedsRegardless(module) == TRUE

\* import(serverFilePath) resolved and typeof importedModule[name] === 'function'
ImportSucceeds(module) == module.import = "ok" /\ module.export # "absent"

\* Options that let the application start its own listener
createSetupOptionsStarting(cfg, i) ==
    [shouldStart |-> TRUE, serverConfig |-> cfg.servers[i],
     serverId |-> cfg.servers[i].id, serverName |-> cfg.servers[i].name]

\* createSetupOptions(serverConfig), serverConfig being config.servers[i]
createSetupOptions(cfg, i) ==
    [shouldStart |-> FALSE, serverConfig |-> cfg.servers[i],
     serverId |-> cfg.servers[i].id, serverName |-> cfg.servers[i].name]

\* The value setupFunction(app, server, setupOptions) evaluates to when it does
\* not throw: the handle of a plain function, the promise of an async one
ReturnedInstance(i, origin) ==
    IF modules[origin].export = "async"
    THEN [type |-> "promise", by |-> i, cleanup |-> "none", getStats |-> "none"]
    ELSE [type |-> "handle", by |-> i, cleanup |-> modules[origin].handle.cleanup,
          getStats |-> modules[origin].handle.getStats]

\* A reader that falls back to the local file when the secret file is there
\* but cannot be read or parsed
ReadConfigurationWithFallback ==
    IF files.secret = "valid" THEN [ok |-> TRUE, doc |-> files.secretDoc]
    ELSE IF files.local = "valid" THEN [ok |-> TRUE, doc |-> files.localDoc]
    ELSE [ok |-> FALSE, doc |-> NoConfig]

\* setupDomainRouting's try block: the secret file when fs.existsSync finds it,
\* else the local file; ok is FALSE when readFileSync or JSON.parse throws
ReadConfiguration ==
    IF files.secret # "absent"
    THEN IF files.secret = "valid" THEN [ok |-> TRUE, doc |-> files.secretDoc]
         ELSE [ok |-> FALSE, doc |-> NoConfig]
    ELSE IF files.local = "valid" THEN [ok |-> TRUE, doc |-> files.localDoc]
         ELSE [ok |-> FALSE, doc |-> NoConfig]

\* startApplication: new ServerManager, initialise() up to the first import():
\* setupMiddlewares, loadConfiguration (setupDomainRouting), loadAllModules' reset
LoadConfiguration ==
    /\ pc = "boot" /\ exitCode = -1
    /\ IF ReadConfiguration.ok
       THEN /\ config' = ReadConfiguration.doc
            /\ domainMap' = BuildDomainMap(ReadConfiguration.doc)
            /\ pc' = "loading"
            /\ cursor' = 1
            /\ loadedModuleCount' = 0
            /\ failedModuleCount' = 0
            /\ UNCHANGED exitCode
       ELSE \* process.exit(1) in setupDomainRouting's catch
            /\ exitCode' = 1
            /\ pc' = "exited"
            /\ UNCHANGED <<config, domainMap, cursor, loadedModuleCount,
                           failedModuleCount>>
    /\ UNCHANGED <<envVars, reqs, setupFunctions, instances, isLoaded, serverVars,
                   invocations, promises, shutdownVars>>

\* A loading loop that stops after its first module
AllModulesVisitedAfterFirst == cursor > 1 \/ cursor > Len(config.servers)

\* for (const serverConfig of config.servers) await this.loadSingleModule(...)
\* has run out of entries
AllModulesVisited == cursor > Len(config.servers)

\* loadSingleModule(config.servers[cursor])
LoadSingleModule ==
    /\ pc = "loading" /\ exitCode = -1
    /\ ~AllModulesVisited
    /\ IF ImportSucceeds(modules[cursor])
       THEN /\ setupFunctions' =
                    RegisterSetupFunction(setupFunctions,
                                          config.servers[cursor].setupFunction, cursor)
            /\ loadedModuleCount' = loadedModuleCount + 1
            /\ UNCHANGED failedModuleCount
       ELSE /\ failedModuleCount' = failedModuleCount + 1
            /\ UNCHANGED <<setupFunctions, loadedModuleCount>>
    /\ cursor' = cursor + 1
    /\ UNCHANGED <<envVars, routingVars, instances, isLoaded, serverVars, pc,
                   invocations, promises, exitCode, shutdownVars>>

\* A zero-modules test that takes an empty application list for a success
NoModulesLoadedOfSome == loadedModuleCount = 0 /\ failedModuleCount > 0

\* if (this.loadedModuleCount === 0) throw new Error('No microserver modules ...')
NoModulesLoaded == loadedModuleCount = 0

\* loadAllModules after its loop
FinishLoading ==
    /\ pc = "loading" /\ exitCode = -1
    /\ AllModulesVisited
    /\ IF NoModulesLoaded
       THEN \* throw; initialise rethrows; startApplication's catch: process.exit(1)
            /\ exitCode' = 1
            /\ pc' = "exited"
            /\ UNCHANGED <<isLoaded, cursor>>
       ELSE /\ isLoaded' = TRUE
            /\ pc' = "setup"
            /\ cursor' = 1
            /\ UNCHANGED exitCode
    /\ UNCHANGED <<envVars, routingVars, setupFunctions, instances, loadedModuleCount,
                   failedModuleCount, serverVars, invocations, promises, shutdownVars>>

\* setupSingleMicroserver(config.servers[cursor])
SetupSingleMicroserver ==
    /\ pc = "setup" /\ exitCode = -1
    /\ cursor <= Len(config.servers)
    /\ LET server == config.servers[cursor]
           name == server.setupFunction
       IN  IF name \notin DOMAIN setupFunctions
           THEN UNCHANGED <<instances, invocations, promises>>
           ELSE LET origin == setupFunctions[name]
                    call == [server |-> cursor, origin |-> origin,
                             options |-> createSetupOptions(config, cursor)]
                IN  /\ invocations' = Append(invocations, call)
                    /\ IF modules[origin].export = "sync" /\ modules[origin].outcome = "throws"
                       THEN UNCHANGED <<instances, promises>>
                       ELSE /\ instances' =
                                 MapSet(instances, server.name,
                                        [instance |-> ReturnedInstance(cursor, origin),
                                         config |-> cursor, setupFunction |-> name])
                            /\ promises' =
                                 IF modules[origin].export = "async"
                                 THEN MapSet(promises, cursor,
                                             [state |-> "pending",
                                              outcome |-> modules[origin].outcome])
                                 ELSE promises
    /\ cursor' = cursor + 1
    /\ UNCHANGED <<envVars, routingVars, setupFunctions, isLoaded, loadedModuleCount,
                   failedModuleCount, serverVars, pc, exitCode, shutdownVars>>

\* initialise() after setupAllMicroservers' loop (healthManager.setupEndpoints,
\* errorHandler.setupHandlers, isInitialised), then start() up to server.listen()
FinishInitialise ==
    /\ pc = "setup" /\ exitCode = -1
    /\ cursor > Len(config.servers)
    /\ handlersInstalled' = TRUE
    /\ isInitialised' = TRUE
    /\ pc' = "listening"
    /\ UNCHANGED <<envVars, routingVars, managerVars, isRunning, listening, keepAlive,
                   cursor, invocations, promises, exitCode, faulted, isShuttingDown,
                   shutdownMode, shutdownTimer, smShutdown, shutdownCalls, cleanups,
                   forceExits>>

\* The callback of server.listen: the listener accepts connections
ListenCallback ==
    /\ pc = "listening" /\ exitCode = -1
    /\ smShutdown \notin {"closing", "done"}
    /\ listening' = TRUE
    /\ isRunning' = TRUE
    /\ keepAlive' = TRUE
    /\ pc' = "running"
    /\ UNCHANGED <<envVars, routingVars, managerVars, isInitialised, cursor,
                   invocations, promises, exitCode, shutdownVars>>

-----------------------------------------------------------------------------
(* MicroserverManager.cleanupAll *)

\* Map iteration order of instances: insertion order, which is config order
RECURSIVE InstanceOrder(_, _)
InstanceOrder(cfg, i) ==
    IF i > Len(cfg.servers) THEN <<>>
    ELSE (IF cfg.servers[i].name \in DOMAIN instances THEN <<cfg.servers[i].name>>
          ELSE <<>>) \o InstanceOrder(cfg, i + 1)

CallsSoFar(name) == IF name \in DOMAIN cleanups THEN cleanups[name].calls ELSE 0

\* An iteration without the try/catch: a throwing cleanup() leaves the loop
CleanupIterationUnguarded(acc, name) ==
    LET kind == instances[name].instance.cleanup
    IN  IF acc.escaped \/ kind = "none" THEN acc
        ELSE IF kind = "throws"
        THEN [states |-> MapSet(acc.states, name,
                                [calls |-> CallsSoFar(name) + 1, state |-> "threw"]),
              escaped |-> TRUE]
        ELSE [acc EXCEPT !.states = MapSet(acc.states, name,
                    [calls |-> CallsSoFar(name) + 1,
                     state |-> IF kind = "returns" THEN "returned" ELSE "pending"])]

\* One iteration of cleanupAll's for-of loop, try/catch included: acc.states is
\* the per-instance result, acc.escaped whether an exception left the loop
CleanupIteration(acc, name) ==
    LET kind == instances[name].instance.cleanup
    IN  IF acc.escaped THEN acc
        ELSE IF kind = "none"
        THEN [acc EXCEPT !.states = MapSet(acc.states, name,
                    [calls |-> CallsSoFar(name), state |-> "not invoked"])]
        ELSE [acc EXCEPT !.states = MapSet(acc.states, name,
                    [calls |-> CallsSoFar(name) + 1,
                     state |-> CASE kind = "returns" -> "returned"
                                 [] kind = "throws" -> "threw"
                                 [] OTHER -> "pending"])]

RECURSIVE CleanupLoop(_, _)
CleanupLoop(acc, names) ==
    IF names = <<>> THEN acc
    ELSE CleanupLoop(CleanupIteration(acc, Head(names)), Tail(names))

\* await Promise.allSettled(cleanupPromises) is over
AllSettled(states) == \A n \in DOMAIN states : states[n].state # "pending"

-----------------------------------------------------------------------------
(* HealthManager: the endpoints registered after the microservers' routes *)

\* An iteration without the try/catch: a throwing getStats() leaves the loop
StatsIterationUnguarded(acc, name) ==
    LET handle == instances[name].instance
    IN  IF acc.threw \/ handle.getStats = "throws" THEN [acc EXCEPT !.threw = TRUE]
        ELSE [acc EXCEPT !.stats = MapSet(acc.stats, name,
                IF handle.getStats = "returns"
                THEN [status |-> "stats", of |-> handle.type, by |-> handle.by]
                ELSE [status |-> "running", of |-> "hasStats: false", by |-> 0])]

\* One iteration of getMicroserverStats' for-of loop, try/catch included:
\* acc.stats is the stats object, acc.threw whether an exception left the loop
StatsIteration(acc, name) ==
    LET handle == instances[name].instance
    IN  IF acc.threw THEN acc
        ELSE [acc EXCEPT !.stats = MapSet(acc.stats, name,
                CASE handle.getStats = "returns" ->
                         [status |-> "stats", of |-> handle.type, by |-> handle.by]
                  [] handle.getStats = "throws" ->
                         [status |-> "error", of |-> handle.type, by |-> handle.by]
                  [] OTHER ->
                         [status |-> "running", of |-> "hasStats: false", by |-> 0])]

RECURSIVE StatsLoop(_, _)
StatsLoop(acc, names) ==
    IF names = <<>> THEN acc
    ELSE StatsLoop(StatsIteration(acc, Head(names)), Tail(names))

\* MicroserverManager.getMicroserverStats
getMicroserverStats ==
    StatsLoop([stats |-> EmptyMap, threw |-> FALSE], InstanceOrder(config, 1))

\* MicroserverManager.getStats, the counts that displayStartupInfo prints as
\* 'active/total'
getStats ==
    [total |-> Cardinality(DOMAIN setupFunctions),
     active |-> Cardinality(DOMAIN instances),
     loadedFunctions |-> loadedModuleCount,
     failedLoads |-> failedModuleCount,
     isLoaded |-> isLoaded]

\* A health snapshot that takes the registered setup functions for the total
buildHealthMicroserversOfImports ==
    [total |-> Cardinality(DOMAIN setupFunctions),
     active |-> Cardinality(DOMAIN instances),
     dynamicImports |-> Cardinality(DOMAIN setupFunctions)]

\* HealthManager.buildHealthResponse: the microservers section of the snapshot
buildHealthMicroservers ==
    [total |-> Len(config.servers),
     active |-> Cardinality(DOMAIN instances),
     dynamicImports |-> Cardinality(DOMAIN setupFunctions)]

\* HealthManager.handleHealthCheck: app.get('/api/health')
handleHealthCheck(r) ==
    /\ reqs[r].pc = "health"
    /\ reqs[r].url = UrlHealth
    /\ IF getMicroserverStats.threw
       THEN reqs' = [reqs EXCEPT ![r].pc = "done", ![r].answeredBy = "health",
                                 ![r].status = 500, ![r].body = "Health check failed"]
       ELSE reqs' = [reqs EXCEPT ![r].pc = "done", ![r].answeredBy = "health",
                                 ![r].status = 200, ![r].body = "health snapshot",
                                 ![r].stats = getMicroserverStats.stats]
    /\ UNCHANGED <<config, domainMap, lifecycleVars>>

\* process.env.CONFIG_DEBUG_TOKEN as the deployment notes set it
ConfigDebugToken == "t"

\* A configuration endpoint that compares the token with CONFIG_DEBUG_TOKEN
handleConfigCheckComparing(r) ==
    /\ reqs[r].pc = "health"
    /\ reqs[r].url = UrlConfig
    /\ IF nodeEnv = "production" /\ reqs[r].token # ConfigDebugToken
       THEN reqs' = [reqs EXCEPT ![r].pc = "done", ![r].answeredBy = "config",
                                 ![r].status = 403, ![r].body = "Access denied"]
       ELSE reqs' = [reqs EXCEPT ![r].pc = "done", ![r].answeredBy = "config",
                                 ![r].status = 200, ![r].body = "configuration"]
    /\ UNCHANGED <<config, domainMap, lifecycleVars>>

\* A configuration endpoint without the production check
handleConfigCheckUngated(r) ==
    /\ reqs[r].pc = "health"
    /\ reqs[r].url = UrlConfig
    /\ reqs' = [reqs EXCEPT ![r].pc = "done", ![r].answeredBy = "config",
                            ![r].status = 200, ![r].body = "configuration"]
    /\ UNCHANGED <<config, domainMap, lifecycleVars>>

\* HealthManager.handleConfigCheck: app.get('/api/config'), refused with 403 or
\* answered with buildConfigResponse()
handleConfigCheck(r) ==
    /\ reqs[r].pc = "health"
    /\ reqs[r].url = UrlConfig
    /\ IF nodeEnv = "production" /\ ~Truthy(reqs[r].token)
       THEN reqs' = [reqs EXCEPT ![r].pc = "done", ![r].answeredBy = "config",
                                 ![r].status = 403, ![r].body = "Access denied"]
       ELSE reqs' = [reqs EXCEPT ![r].pc = "done", ![r].answeredBy = "config",
                                 ![r].status = 200, ![r].body = "configuration"]
    /\ UNCHANGED <<config, domainMap, lifecycleVars>>

\* No route matched: express's final handler answers 404
FinalHandler(r) ==
    /\ reqs[r].pc = "health"
    /\ reqs[r].url \notin {UrlHealth, UrlConfig}
    /\ reqs' = [reqs EXCEPT ![r].pc = "done", ![r].answeredBy = "final",
                            ![r].status = 404, ![r].body = "Cannot GET"]
    /\ UNCHANGED <<config, domainMap, lifecycleVars>>

-----------------------------------------------------------------------------
(* ErrorHandler and ServerManager.gracefulShutdown *)

\* ServerManager.gracefulShutdown up to its first suspension: keepAlive.stop(),
\* then cleanupAll's loop, then the await of Promise.allSettled
BeginServerShutdown ==
    LET result == CleanupLoop([states |-> EmptyMap, escaped |-> FALSE],
                              InstanceOrder(config, 1))
    IN  /\ keepAlive' = FALSE
        /\ shutdownCalls' = shutdownCalls + 1
        /\ cleanups' = result.states
        /\ smShutdown' = IF result.escaped THEN "threw" ELSE "cleanup"

\* ErrorHandler.gracefulShutdown(signal) up to its await
BeginGracefulShutdown ==
    /\ isShuttingDown' = TRUE
    /\ shutdownMode' = "graceful"
    /\ shutdownTimer' = "armed"
    /\ BeginServerShutdown

\* An emergency shutdown without the isShuttingDown guard
BeginEmergencyShutdownUnguarded ==
    /\ isShuttingDown' = TRUE
    /\ shutdownMode' = "emergency"
    /\ shutdownTimer' = "armed"
    /\ BeginServerShutdown

\* ErrorHandler.emergencyShutdown(reason, error) up to its await
BeginEmergencyShutdown ==
    IF isShuttingDown
    THEN UNCHANGED <<keepAlive, isShuttingDown, shutdownMode, shutdownTimer,
                     smShutdown, shutdownCalls, cleanups>>
    ELSE /\ isShuttingDown' = TRUE
         /\ shutdownMode' = "emergency"
         /\ shutdownTimer' = "armed"
         /\ BeginServerShutdown

\* process.on('SIGTERM' | 'SIGINT' | 'SIGUSR2') -> handleShutdownSignal
HandleShutdownSignal(signal) ==
    /\ handlersInstalled /\ exitCode = -1
    /\ IF isShuttingDown
       THEN UNCHANGED <<keepAlive, isShuttingDown, shutdownMode, shutdownTimer,
                        smShutdown, shutdownCalls, cleanups>>
       ELSE BeginGracefulShutdown
    /\ UNCHANGED <<envVars, routingVars, managerVars, isInitialised, isRunning,
                   listening, controlVars, handlersInstalled, faulted, forceExits>>

\* process.on('uncaughtException' | 'unhandledRejection'): a fault raised by any
\* code running in the process (a request handler, a timer, the listener)
HandleFault(kind) ==
    /\ handlersInstalled /\ exitCode = -1
    /\ faulted' = TRUE
    /\ BeginEmergencyShutdown
    /\ UNCHANGED <<envVars, routingVars, managerVars, isInitialised, isRunning,
                   listening, controlVars, handlersInstalled, forceExits>>

\* A registry that replaces the stored promise by the handle it fulfils with
InitializerSettlesStoring(i) ==
    /\ exitCode = -1
    /\ pc \in {"listening", "running"}
    /\ i \in DOMAIN promises
    /\ promises[i].state = "pending"
    /\ promises' = [promises EXCEPT ![i].state = "fulfilled"]
    /\ instances' = [instances EXCEPT ![config.servers[i].name].instance.type = "handle"]
    /\ UNCHANGED <<envVars, routingVars, setupFunctions, isLoaded, loadedModuleCount,
                   failedModuleCount, serverVars, pc, cursor, invocations, exitCode,
                   shutdownVars>>

\* The promise an async setup function returned settles.  Nothing awaits it or
\* attaches a handler to it, so its rejection is an unhandledRejection.  The
\* event is delivered once the microtask queue has drained: after the setup
\* loop, which runs without leaving the microtask queue.
InitializerSettles(i) ==
    /\ exitCode = -1
    /\ pc \in {"listening", "running"}
    /\ i \in DOMAIN promises
    /\ promises[i].state = "pending"
    /\ IF promises[i].outcome = "returns"
       THEN /\ promises' = [promises EXCEPT ![i].state = "fulfilled"]
            /\ UNCHANGED <<faulted, keepAlive, isShuttingDown, shutdownMode, shutdownTimer,
                           smShutdown, shutdownCalls, cleanups>>
       ELSE \* handleUnhandledRejection
            /\ promises' = [promises EXCEPT ![i].state = "rejected"]
            /\ faulted' = TRUE
            /\ BeginEmergencyShutdown
    /\ UNCHANGED <<envVars, routingVars, managerVars, isInitialised, isRunning,
                   listening, pc, cursor, invocations, exitCode, handlersInstalled,
                   forceExits>>

\* The promise a cleanup() returned settles
CleanupSettles(name) ==
    /\ exitCode = -1
    /\ name \in DOMAIN cleanups
    /\ cleanups[name].state = "pending"
    /\ instances[name].instance.cleanup \in {"fulfils", "rejects"}
    /\ cleanups' = [cleanups EXCEPT ![name].state =
                        IF instances[name].instance.cleanup = "fulfils"
                        THEN "fulfilled" ELSE "rejected"]
    /\ UNCHANGED <<envVars, routingVars, managerVars, serverVars, controlVars,
                   handlersInstalled, faulted, isShuttingDown, shutdownMode, shutdownTimer,
                   smShutdown, shutdownCalls, forceExits>>

\* A shutdown that closes the listener without awaiting the cleanups
CleanupAllReturnsEarly ==
    /\ exitCode = -1
    /\ smShutdown = "cleanup"
    /\ smShutdown' = "closing"
    /\ listening' = FALSE
    /\ UNCHANGED <<envVars, routingVars, managerVars, isInitialised, isRunning,
                   keepAlive, controlVars, handlersInstalled, faulted, isShuttingDown,
                   shutdownMode, shutdownTimer, shutdownCalls, cleanups, forceExits>>

\* cleanupAll returns; ServerManager.gracefulShutdown calls server.close(cb)
CleanupAllReturns ==
    /\ exitCode = -1
    /\ smShutdown = "cleanup"
    /\ AllSettled(cleanups)
    /\ smShutdown' = "closing"
    /\ listening' = FALSE
    /\ UNCHANGED <<envVars, routingVars, managerVars, isInitialised, isRunning,
                   keepAlive, controlVars, handlersInstalled, faulted, isShuttingDown,
                   shutdownMode, shutdownTimer, shutdownCalls, cleanups, forceExits>>

\* The continuation of ErrorHandler.gracefulShutdown / emergencyShutdown once
\* ServerManager.gracefulShutdown has settled with the given result
AfterServerShutdown(threw) ==
    IF shutdownMode = "graceful"
    THEN /\ shutdownTimer' = IF ~threw /\ shutdownTimer = "armed" THEN "cleared"
                             ELSE shutdownTimer
         /\ forceExits' = Append(forceExits, IF threw THEN 1 ELSE 0)
         /\ UNCHANGED exitCode
    ELSE \* emergencyShutdown's finally: process.exit(1)
         /\ shutdownTimer' = IF ~threw /\ shutdownTimer = "armed" THEN "cleared"
                             ELSE shutdownTimer
         /\ exitCode' = 1
         /\ UNCHANGED forceExits

\* ServerManager.gracefulShutdown settles: the callback of server.close ran
\* (all connections have ended), or an exception left its try block
ServerShutdownSettles ==
    /\ exitCode = -1
    /\ smShutdown \in {"closing", "threw"}
    /\ smShutdown = "closing" => \A r \in DOMAIN reqs : reqs[r].pc = "idle"
    /\ isRunning' = IF smShutdown = "closing" THEN FALSE ELSE isRunning
    /\ smShutdown' = "done"
    /\ AfterServerShutdown(smShutdown = "threw")
    /\ UNCHANGED <<envVars, routingVars, managerVars, isInitialised, listening,
                   keepAlive, pc, cursor, invocations, promises, handlersInstalled, faulted,
                   isShuttingDown, shutdownMode, shutdownCalls, cleanups>>

\* A timeout whose callback exits nothing
ShutdownTimerLost ==
    /\ exitCode = -1
    /\ shutdownTimer = "armed"
    /\ shutdownTimer' = "fired"
    /\ UNCHANGED <<envVars, routingVars, managerVars, serverVars, controlVars,
                   handlersInstalled, faulted, isShuttingDown, shutdownMode,
                   smShutdown, shutdownCalls, cleanups, forceExits>>

\* The 30s (graceful) or 5s (emergency) timeout fires
ShutdownTimerFires ==
    /\ exitCode = -1
    /\ shutdownTimer = "armed"
    /\ shutdownTimer' = "fired"
    /\ IF shutdownMode = "graceful"
       THEN /\ forceExits' = Append(forceExits, 1)
            /\ UNCHANGED exitCode
       ELSE /\ exitCode' = 1
            /\ UNCHANGED forceExits
    /\ UNCHANGED <<envVars, routingVars, managerVars, serverVars, pc, cursor,
                   invocations, promises, handlersInstalled, faulted, isShuttingDown,
                   shutdownMode, smShutdown, shutdownCalls, cleanups>>

\* Exit timers that run newest first
ForceExitFiresNewest ==
    /\ exitCode = -1
    /\ forceExits # <<>>
    /\ exitCode' = forceExits[Len(forceExits)]
    /\ forceExits' = SubSeq(forceExits, 1, Len(forceExits) - 1)
    /\ UNCHANGED <<envVars, routingVars, managerVars, serverVars, pc, cursor,
                   invocations, promises, handlersInstalled, faulted, isShuttingDown,
                   shutdownMode, shutdownTimer, smShutdown, shutdownCalls, cleanups>>

\* forceExit's 500ms timer: process.exit(code)
ForceExitFires ==
    /\ exitCode = -1
    /\ forceExits # <<>>
    /\ exitCode' = Head(forceExits)
    /\ forceExits' = Tail(forceExits)
    /\ UNCHANGED <<envVars, routingVars, managerVars, serverVars, pc, cursor,
                   invocations, promises, handlersInstalled, faulted, isShuttingDown,
                   shutdownMode, shutdownTimer, smShutdown, shutdownCalls, cleanups>>

-----------------------------------------------------------------------------
(* Further calls of ServerManager.initialise() and start() *)

\* A call of initialise() or start() other than startApplication's: where its
\* activation stands and the index of its own for-of loop
Activation(call, at, index) == [call |-> call, pc |-> at, cursor |-> index]

\* initialise() called again, while the first activation waits for an import()
\* or after it returned: the isInitialised test, then setupMiddlewares,
\* loadConfiguration and loadAllModules' reset up to the first import()
RepeatInitialise ==
    /\ exitCode = -1
    /\ Len(repeats) < MaxRepeats
    /\ isInitialised \/ (pc = "loading" /\ ~AllModulesVisited)
    /\ IF isInitialised
       THEN \* 'Already initialised, skipping...'
            /\ repeats' = Append(repeats, Activation("initialise", "skipped", 0))
            /\ UNCHANGED <<config, domainMap, loadedModuleCount, failedModuleCount,
                           exitCode, pc>>
       ELSE IF ReadConfiguration.ok
       THEN /\ repeats' = Append(repeats, Activation("initialise", "loading", 1))
            /\ config' = ReadConfiguration.doc
            /\ domainMap' = BuildDomainMap(ReadConfiguration.doc)
            /\ loadedModuleCount' = 0
            /\ failedModuleCount' = 0
            /\ UNCHANGED <<exitCode, pc>>
       ELSE /\ repeats' = Append(repeats, Activation("initialise", "threw", 0))
            /\ exitCode' = 1
            /\ pc' = "exited"
            /\ UNCHANGED <<config, domainMap, loadedModuleCount, failedModuleCount>>
    /\ UNCHANGED <<files, modules, nodeEnv, reqs, setupFunctions, instances, isLoaded,
                   serverVars, cursor, invocations, promises, shutdownVars>>

\* A start() that does not test isInitialised
StartOutcomeUnguarded ==
    IF isRunning THEN "skipped" ELSE "listen"

\* start(): it throws 'Server must be initialised before starting' unless
\* isInitialised, returns at once if isRunning, and otherwise calls
\* server.listen
StartOutcome ==
    IF ~isInitialised THEN "threw"
    ELSE IF isRunning THEN "skipped"
    ELSE "listen"

\* start() called again before any shutdown.  Where it reaches server.listen
\* the server has a listen() pending, which makes the call throw
\* ERR_SERVER_ALREADY_LISTEN: no state of the manager changes
RepeatStart ==
    /\ exitCode = -1
    /\ Len(repeats) < MaxRepeats
    /\ pc # "boot" /\ smShutdown = "idle"
    /\ repeats' = Append(repeats, Activation("start", StartOutcome, 0))
    /\ UNCHANGED <<files, modules, nodeEnv, routingVars, managerVars, serverVars,
                   controlVars, shutdownVars>>

\* loadSingleModule(config.servers[cursor]) of the k-th further call
RepeatLoadSingleModule(k) ==
    /\ exitCode = -1
    /\ repeats[k].pc = "loading"
    /\ repeats[k].cursor <= Len(config.servers)
    /\ LET c == repeats[k].cursor
       IN  /\ IF ImportSucceeds(modules[c])
              THEN /\ setupFunctions' =
                           RegisterSetupFunction(setupFunctions,
                                                 config.servers[c].setupFunction, c)
                   /\ loadedModuleCount' = loadedModuleCount + 1
                   /\ UNCHANGED failedModuleCount
              ELSE /\ failedModuleCount' = failedModuleCount + 1
                   /\ UNCHANGED <<setupFunctions, loadedModuleCount>>
           /\ repeats' = [repeats EXCEPT ![k].cursor = c + 1]
    /\ UNCHANGED <<files, modules, nodeEnv, routingVars, instances, isLoaded,
                   serverVars, controlVars, shutdownVars>>

\* loadAllModules of the k-th further call after its loop; its throw reaches
\* the caller of that initialise()
RepeatFinishLoading(k) ==
    /\ exitCode = -1
    /\ repeats[k].pc = "loading"
    /\ repeats[k].cursor > Len(config.servers)
    /\ IF NoModulesLoaded
       THEN /\ repeats' = [repeats EXCEPT ![k].pc = "threw"]
            /\ UNCHANGED isLoaded
       ELSE /\ isLoaded' = TRUE
            /\ repeats' = [repeats EXCEPT ![k].pc = "setup", ![k].cursor = 1]
    /\ UNCHANGED <<files, modules, nodeEnv, routingVars, setupFunctions, instances,
                   loadedModuleCount, failedModuleCount, serverVars, controlVars,
                   shutdownVars>>

\* setupSingleMicroserver(config.servers[cursor]) of the k-th further call
RepeatSetupSingleMicroserver(k) ==
    /\ exitCode = -1
    /\ repeats[k].pc = "setup"
    /\ repeats[k].cursor <= Len(config.servers)
    /\ LET c == repeats[k].cursor
           server == config.servers[c]
           name == server.setupFunction
       IN  /\ IF name \notin DOMAIN setupFunctions
              THEN UNCHANGED <<instances, invocations, promises>>
              ELSE LET origin == setupFunctions[name]
                       call == [server |-> c, origin |-> origin,
                                options |-> createSetupOptions(config, c)]
                   IN  /\ invocations' = Append(invocations, call)
                       /\ IF modules[origin].export = "sync"
                             /\ modules[origin].outcome = "throws"
                          THEN UNCHANGED <<instances, promises>>
                          ELSE /\ instances' =
                                    MapSet(instances, server.name,
                                           [instance |-> ReturnedInstance(c, origin),
                                            config |-> c, setupFunction |-> name])
                               /\ promises' =
                                    IF modules[origin].export = "async"
                                    THEN MapSet(promises, c,
                                                [state |-> "pending",
                                                 outcome |-> modules[origin].outcome])
                                    ELSE promises
           /\ repeats' = [repeats EXCEPT ![k].cursor = c + 1]
    /\ UNCHANGED <<files, modules, nodeEnv, routingVars, setupFunctions, isLoaded,
                   loadedModuleCount, failedModuleCount, serverVars, pc, cursor,
                   exitCode, shutdownVars>>

\* initialise() of the k-th further call after setupAllMicroservers' loop
RepeatFinishInitialise(k) ==
    /\ exitCode = -1
    /\ repeats[k].pc = "setup"
    /\ repeats[k].cursor > Len(config.servers)
    /\ handlersInstalled' = TRUE
    /\ isInitialised' = TRUE
    /\ repeats' = [repeats EXCEPT ![k].pc = "returned"]
    /\ UNCHANGED <<files, modules, nodeEnv, routingVars, managerVars, isRunning,
                   listening, keepAlive, controlVars, faulted, isShuttingDown,
                   shutdownMode, shutdownTimer, smShutdown, shutdownCalls, cleanups,
                   forceExits>>

-----------------------------------------------------------------------------
(* Specifications *)

Signals == {"SIGTERM", "SIGINT", "SIGUSR2"}
Faults == {"uncaughtException", "unhandledRejection"}

InitLifecycleVars ==
    /\ setupFunctions = EmptyMap
    /\ instances = EmptyMap
    /\ isLoaded = FALSE
    /\ loadedModuleCount = 0
    /\ failedModuleCount = 0
    /\ isInitialised = FALSE
    /\ isRunning = FALSE
    /\ listening = FALSE
    /\ keepAlive = FALSE
    /\ pc = "boot"
    /\ cursor = 0
    /\ invocations = <<>>
    /\ promises = EmptyMap
    /\ exitCode = -1
    /\ handlersInstalled = FALSE
    /\ faulted = FALSE
    /\ isShuttingDown = FALSE
    /\ shutdownMode = "none"
    /\ shutdownTimer = "off"
    /\ smShutdown = "idle"
    /\ shutdownCalls = 0
    /\ cleanups = EmptyMap
    /\ forceExits = <<>>

\* The state after construction (new ServerManager): nothing loaded yet
Init ==
    /\ \E doc \in LifecycleConfigs, f \in FileStates :
          /\ files = [secret |-> f.secret, local |-> f.local,
                      secretDoc |-> IF f.secret = "valid" THEN doc ELSE NoConfig,
                      localDoc |-> IF f.local # "valid" THEN NoConfig
                                   ELSE IF f.secret = "valid" THEN StaleDocument
                                   ELSE doc]
          \* every module behaviour with the local file, one with the others
          /\ modules \in [1..Len(doc.servers) ->
                            IF f.secret = "absent" /\ f.local = "valid"
                            THEN ModuleKinds ELSE {SyncModule}]
    /\ nodeEnv = "production"
    /\ repeats = <<>>
    /\ config = NoConfig
    /\ domainMap = EmptyObject
    /\ reqs = [r \in {1} |-> IdleRequest]
    /\ InitLifecycleVars

Next ==
    \/ LoadConfiguration
    \/ LoadSingleModule
    \/ FinishLoading
    \/ SetupSingleMicroserver
    \/ FinishInitialise
    \/ ListenCallback
    \/ \E signal \in Signals : HandleShutdownSignal(signal)
    \/ \E kind \in Faults : HandleFault(kind)
    \/ \E i \in 1..Len(config.servers) : InitializerSettles(i)
    \/ \E name \in DOMAIN cleanups : CleanupSettles(name)
    \/ CleanupAllReturns
    \/ ServerShutdownSettles
    \/ ShutdownTimerFires
    \/ ForceExitFires

Spec == Init /\ [][Next]_vars

\* Timers that are due fire: the event loop runs the callbacks of setTimeout
SpecLive ==
    /\ Init /\ [][Next]_vars
    /\ WF_vars(ShutdownTimerFires)
    /\ WF_vars(ForceExitFires)

RequestIds == {1}

\* The process serves: startup has loaded and set up both microservers of a
\* routing configuration and the listener accepts connections
InitRouting ==
    /\ config \in RoutingConfigs
    /\ files = [secret |-> "absent", local |-> "valid",
                secretDoc |-> NoConfig, localDoc |-> config]
    /\ modules = [i \in 1..2 |-> SyncModule]
    /\ nodeEnv = "production"
    /\ repeats = <<>>
    /\ domainMap = BuildDomainMap(config)
    /\ reqs = [r \in RequestIds |-> IdleRequest]
    /\ setupFunctions = [n \in {"setupAlpha", "setupBeta"} |->
                            IF n = "setupAlpha" THEN 1 ELSE 2]
    /\ instances = [n \in {"alpha", "beta"} |->
                       LET i == IF n = "alpha" THEN 1 ELSE 2
                       IN  [instance |-> [type |-> "handle", by |-> i,
                                          cleanup |-> "returns", getStats |-> "returns"],
                            config |-> i,
                            setupFunction |-> config.servers[i].setupFunction]]
    /\ isLoaded = TRUE
    /\ loadedModuleCount = 2
    /\ failedModuleCount = 0
    /\ isInitialised = TRUE
    /\ isRunning = TRUE
    /\ listening = TRUE
    /\ keepAlive = TRUE
    /\ pc = "running"
    /\ cursor = 3
    /\ invocations = [i \in 1..2 |-> [server |-> i, origin |-> i,
                                       options |-> createSetupOptions(config, i)]]
    /\ promises = EmptyMap
    /\ exitCode = -1
    /\ handlersInstalled = TRUE
    /\ faulted = FALSE
    /\ isShuttingDown = FALSE
    /\ shutdownMode = "none"
    /\ shutdownTimer = "off"
    /\ smShutdown = "idle"
    /\ shutdownCalls = 0
    /\ cleanups = EmptyMap
    /\ forceExits = <<>>

NextRouting ==
    \E r \in RequestIds :
        \/ /\ exitCode = -1 /\ listening /\ reqs[r].pc = "idle"
           /\ \E host \in Hosts, url \in Urls :
                 \E token \in TokensOf(url) : Receive(r, host, url, token)
        \/ BasicMiddlewares(r)
        \/ DomainDetection(r)
        \/ \E fileExists \in BOOLEAN : SpaCatchall(r, fileExists)
        \/ ApplicationHandlers(r)
        \/ handleHealthCheck(r)
        \/ handleConfigCheck(r)
        \/ FinalHandler(r)
        \/ Discard(r)

SpecRouting == InitRouting /\ [][NextRouting]_vars

\* The modules a serving process can have been started with: each loads, and
\* its setup function returns a handle, throws, or is async and fulfils
HealthModuleKinds ==
    {m \in ModuleKinds :
        ImportSucceeds(m) /\ (m.export = "async" => m.outcome = "returns")}

HealthConfig ==
    [servers |-> <<Server(1, "alpha", <<DomA>>, AlphaSkip, "setupAlpha"),
                   Server(2, "beta", <<DomAA>>, <<PrefixApi>>, "setupBeta")>>,
     default |-> [serverId |-> 1, serverName |-> "alpha"]]

\* The process serves after a startup over any pair of such modules: the
\* registries hold what loadAllModules and setupAllMicroservers left in them
InitHealth ==
    /\ config = HealthConfig
    /\ files = [secret |-> "absent", local |-> "valid",
                secretDoc |-> NoConfig, localDoc |-> config]
    /\ modules \in [1..2 -> HealthModuleKinds]
    /\ nodeEnv = "production"
    /\ repeats = <<>>
    /\ domainMap = BuildDomainMap(config)
    /\ reqs = [r \in RequestIds |-> IdleRequest]
    /\ setupFunctions = [n \in {"setupAlpha", "setupBeta"} |->
                            IF n = "setupAlpha" THEN 1 ELSE 2]
    /\ instances = [n \in {config.servers[i].name :
                               i \in {j \in 1..2 : modules[j].outcome = "returns"}} |->
                       LET i == FindServer(config, n)
                       IN  [instance |-> ReturnedInstance(i, i),
                            config |-> i,
                            setupFunction |-> config.servers[i].setupFunction]]
    /\ isLoaded = TRUE
    /\ loadedModuleCount = 2
    /\ failedModuleCount = 0
    /\ isInitialised = TRUE
    /\ isRunning = TRUE
    /\ listening = TRUE
    /\ keepAlive = TRUE
    /\ pc = "running"
    /\ cursor = 3
    /\ invocations = [i \in 1..2 |-> [server |-> i, origin |-> i,
                                       options |-> createSetupOptions(config, i)]]
    /\ promises = [i \in {j \in 1..2 : modules[j].export = "async"} |->
                      [state |-> "fulfilled", outcome |-> "returns"]]
    /\ exitCode = -1
    /\ handlersInstalled = TRUE
    /\ faulted = FALSE
    /\ isShuttingDown = FALSE
    /\ shutdownMode = "none"
    /\ shutdownTimer = "off"
    /\ smShutdown = "idle"
    /\ shutdownCalls = 0
    /\ cleanups = EmptyMap
    /\ forceExits = <<>>

SpecHealth == InitHealth /\ [][NextRouting]_vars

\* The last application of cfg to declare the setup function name
LastDeclaring(cfg, name) ==
    CHOOSE i \in 1..Len(cfg.servers) :
        /\ cfg.servers[i].setupFunction = name
        /\ \A j \in 1..Len(cfg.servers) : cfg.servers[j].setupFunction = name => j <= i

\* The process serves cfg, read from the local file: every module is a plain
\* one that loaded and was set up, and the listener accepts connections
ServingPlainModules(cfg) ==
    /\ config = cfg
    /\ files = [secret |-> "absent", local |-> "valid",
                secretDoc |-> NoConfig, localDoc |-> cfg]
    /\ modules = [i \in 1..Len(cfg.servers) |-> SyncModule]
    /\ domainMap = BuildDomainMap(cfg)
    /\ setupFunctions = [n \in {cfg.servers[i].setupFunction : i \in 1..Len(cfg.servers)} |->
                            LastDeclaring(cfg, n)]
    /\ instances = [n \in {cfg.servers[i].name : i \in 1..Len(cfg.servers)} |->
                       LET i == FindServer(cfg, n)
                       IN  [instance |-> ReturnedInstance(i, LastDeclaring(cfg, cfg.servers[i].setupFunction)),
                            config |-> i,
                            setupFunction |-> cfg.servers[i].setupFunction]]
    /\ isLoaded = TRUE
    /\ loadedModuleCount = Len(cfg.servers)
    /\ failedModuleCount = 0
    /\ isInitialised = TRUE
    /\ isRunning = TRUE
    /\ listening = TRUE
    /\ keepAlive = TRUE
    /\ pc = "running"
    /\ cursor = Len(cfg.servers) + 1
    /\ invocations = [i \in 1..Len(cfg.servers) |->
                         [server |-> i,
                          origin |-> LastDeclaring(cfg, cfg.servers[i].setupFunction),
                          options |-> createSetupOptions(cfg, i)]]
    /\ promises = EmptyMap
    /\ exitCode = -1
    /\ handlersInstalled = TRUE
    /\ faulted = FALSE
    /\ isShuttingDown = FALSE
    /\ shutdownMode = "none"
    /\ shutdownTimer = "off"
    /\ smShutdown = "idle"
    /\ shutdownCalls = 0
    /\ cleanups = EmptyMap
    /\ forceExits = <<>>

\* The process serves in any environment mode
InitConfig ==
    /\ nodeEnv \in Environments
    /\ repeats = <<>>
    /\ reqs = [r \in RequestIds |-> IdleRequest]
    /\ ServingPlainModules(HealthConfig)

SpecConfig == InitConfig /\ [][NextRouting]_vars

\* Two requests are in the pipeline at once: node runs one middleware at a
\* time, and a request waits between middlewares while others advance
ConcurrentIds == {1, 2}
ConcurrentHosts == {DomA, DomAA, NoHost}
ConcurrentUrls == {<<"/">>, <<"/", "/", "x">>, UrlHealth, UrlConfig}

ConcurrentConfigs ==
    {cfg \in RoutingConfigs :
        /\ cfg.servers[1].domains = <<DomA>>
        /\ Len(cfg.servers[2].skipSPA) > 0
        /\ cfg.default.serverName \in {"alpha", "ghost"}}

InitConcurrent ==
    /\ nodeEnv = "production"
    /\ repeats = <<>>
    /\ reqs = [r \in ConcurrentIds |-> IdleRequest]
    /\ \E cfg \in ConcurrentConfigs : ServingPlainModules(cfg)

NextConcurrent ==
    \E r \in ConcurrentIds :
        \/ /\ exitCode = -1 /\ listening /\ reqs[r].pc = "idle"
           /\ \E host \in ConcurrentHosts, url \in ConcurrentUrls :
                 \E token \in TokensOf(url) : Receive(r, host, url, token)
        \/ BasicMiddlewares(r)
        \/ DomainDetection(r)
        \/ \E fileExists \in BOOLEAN : SpaCatchall(r, fileExists)
        \/ ApplicationHandlers(r)
        \/ handleHealthCheck(r)
        \/ handleConfigCheck(r)
        \/ FinalHandler(r)
        \/ Discard(r)

SpecConcurrent == InitConcurrent /\ [][NextConcurrent]_vars

\* What the modules of a process that also serves requests can be: missing,
\* throwing in setup, async, or returning a handle whose cleanup is async
ServingModuleKinds ==
    {m \in ModuleKinds :
        \/ m.import = "missing"
        \/ m.export = "sync" /\ m.outcome = "throws"
        \/ m.export = "async" /\ m.outcome = "returns"
        \/ m.export = "sync" /\ m.outcome = "returns" /\ m.handle = AsyncHandle}

ServingHosts == {DomAA}
ServingUrls == {<<"/">>, PrefixApi, UrlHealth, UrlConfig}

\* The state after construction, the local file holding HealthConfig
InitServing ==
    /\ files = [secret |-> "absent", local |-> "valid",
                secretDoc |-> NoConfig, localDoc |-> HealthConfig]
    /\ modules \in [1..2 -> ServingModuleKinds]
    /\ nodeEnv = "production"
    /\ repeats = <<>>
    /\ config = NoConfig
    /\ domainMap = EmptyObject
    /\ reqs = [r \in RequestIds |-> IdleRequest]
    /\ InitLifecycleVars

\* The listener's connection callback can run: the listener is open, and a
\* gracefulShutdown that awaits cleanupAll waits for a promise that is still
\* pending (with every cleanup settled it runs on to server.close within the
\* microtask queue)
AcceptsConnections ==
    /\ listening
    /\ smShutdown = "cleanup" => ~AllSettled(cleanups)

\* The whole process: startup, the requests the listener receives, shutdown
NextServing ==
    \/ Next
    \/ \E r \in RequestIds :
          \/ /\ exitCode = -1 /\ AcceptsConnections /\ reqs[r].pc = "idle"
             /\ \E host \in ServingHosts, url \in ServingUrls :
                   Receive(r, host, url, Undefined)
          \/ exitCode = -1 /\ BasicMiddlewares(r)
          \/ exitCode = -1 /\ DomainDetection(r)
          \/ exitCode = -1 /\ \E fileExists \in BOOLEAN : SpaCatchall(r, fileExists)
          \/ exitCode = -1 /\ ApplicationHandlers(r)
          \/ exitCode = -1 /\ handleHealthCheck(r)
          \/ exitCode = -1 /\ handleConfigCheck(r)
          \/ exitCode = -1 /\ FinalHandler(r)
          \/ exitCode = -1 /\ Discard(r)

SpecServing == InitServing /\ [][NextServing]_vars

\* Backends that do not load, that export an async function, or that export a
\* plain function whose handle has an asynchronous cleanup
CallsModuleKinds ==
    {[import |-> "missing", export |-> "absent", outcome |-> "throws",
      handle |-> NoHandle],
     [import |-> "ok", export |-> "async", outcome |-> "returns",
      handle |-> AsyncHandle],
     [import |-> "ok", export |-> "sync", outcome |-> "returns",
      handle |-> AsyncHandle]}

\* Two applications, each with a setup function of its own name
CallsConfig ==
    [servers |-> <<Server(1, "alpha", <<DomA>>, AlphaSkip, "setupOne"),
                   Server(2, "beta", <<DomAA>>, AlphaSkip, "setupTwo")>>,
     default |-> [serverId |-> 1, serverName |-> "alpha"]]

\* The state after construction, with the local configuration file
InitCalls ==
    /\ files = [secret |-> "absent", local |-> "valid",
                secretDoc |-> NoConfig, localDoc |-> CallsConfig]
    /\ modules \in [1..2 -> CallsModuleKinds]
    /\ nodeEnv = "production"
    /\ repeats = <<>>
    /\ config = NoConfig
    /\ domainMap = EmptyObject
    /\ reqs = [r \in {1} |-> IdleRequest]
    /\ InitLifecycleVars

NextCalls ==
    \/ Next
    \/ RepeatInitialise
    \/ RepeatStart
    \/ \E k \in DOMAIN repeats : RepeatLoadSingleModule(k)
    \/ \E k \in DOMAIN repeats : RepeatFinishLoading(k)
    \/ \E k \in DOMAIN repeats : RepeatSetupSingleMicroserver(k)
    \/ \E k \in DOMAIN repeats : RepeatFinishInitialise(k)

SpecCalls == InitCalls /\ [][NextCalls]_vars

\* The lifecycle with further calls of start() only
NextStart ==
    \/ Next
    \/ RepeatStart

SpecStart == InitCalls /\ [][NextStart]_vars

\* The process left to itself: no signal arrives and no other code faults
NextUndisturbed ==
    \/ LoadConfiguration
    \/ LoadSingleModule
    \/ FinishLoading
    \/ SetupSingleMicroserver
    \/ FinishInitialise
    \/ ListenCallback
    \/ \E i \in 1..Len(config.servers) : InitializerSettles(i)
    \/ \E name \in DOMAIN cleanups : CleanupSettles(name)
    \/ CleanupAllReturns
    \/ ServerShutdownSettles
    \/ ShutdownTimerFires

SpecUndisturbed == Init /\ [][NextUndisturbed]_vars

-----------------------------------------------------------------------------
(* Properties of the request pipeline (SpecRouting) *)

\* The Host header h is the domain d, with or without a :port suffix
HostIs(h, d) ==
    \/ h = d
    \/ Len(h) > Len(d) /\ SubSeq(h, 1, Len(d) + 1) = d \o <<":">>

\* Request r has passed the domain detection middleware
Resolved(r) == reqs[r].fullHost # <<>>

\* Request r has passed the SPA catchall middleware
Dispatched(r) == reqs[r].spaDecision # "none"

HasColon(d) == \E j \in 1..Len(d) : d[j] = ":"

\* The pairs <<i, k>> of an application and one of its domains
DeclaredDomains ==
    UNION {{<<i, k>> : k \in 1..Len(config.servers[i].domains)} :
              i \in 1..Len(config.servers)}

DomainAt(ik) == config.servers[ik[1]].domains[ik[2]]

\* No application declared after application i also declares d
LastToDeclare(i, d) ==
    \A ik \in DeclaredDomains : DomainAt(ik) = d => ik[1] <= i

\* d is a plain hostname: non-empty, without ':' and not the reserved key
PlainDomain(d) == d # <<>> /\ ~HasColon(d) /\ d # KeyDefault

\* The request was routed to application i
RoutedTo(r, i) ==
    /\ reqs[r].targetModule = config.servers[i].name
    /\ reqs[r].serverIdx = i

\* C1 as stated: every domain d of every application A, sent as the Host
\* header with or without a port, resolves to A.name and to A's own entry.
C1_EveryDomainResolvesToItsApplication ==
    \A r \in RequestIds : \A ik \in DeclaredDomains :
        Resolved(r) /\ HostIs(reqs[r].host, DomainAt(ik)) => RoutedTo(r, ik[1])

\* C1 amended: a plain domain d of application A (no ':', not 'default') that
\* no later-declared application declares again resolves, with or without a
\* port, to A.name and to A's own entry.
C1_LastDeclarerOfPlainDomainWins ==
    \A r \in RequestIds : \A ik \in DeclaredDomains :
        /\ Resolved(r)
        /\ PlainDomain(DomainAt(ik))
        /\ LastToDeclare(ik[1], DomainAt(ik))
        /\ HostIs(reqs[r].host, DomainAt(ik))
        => RoutedTo(r, ik[1])

\* A ported Host of a domain two applications declare reached the later one,
\* which is not the default application
C1_Witness ==
    \E r \in RequestIds : \E ik \in DeclaredDomains :
        /\ Resolved(r)
        /\ PlainDomain(DomainAt(ik))
        /\ LastToDeclare(ik[1], DomainAt(ik))
        /\ \E jk \in DeclaredDomains : jk[1] < ik[1] /\ DomainAt(jk) = DomainAt(ik)
        /\ reqs[r].host = DomainAt(ik) \o <<":", "8">>
        /\ config.default.serverName # config.servers[ik[1]].name
        /\ RoutedTo(r, ik[1])

\* The Host header h names none of the configured domains
Unlisted(h) == \A ik \in DeclaredDomains : ~HostIs(h, DomainAt(ik))

\* C2 as stated: a request whose Host value is listed in no application's
\* domains resolves to config.default.serverName.
C2_UnlistedHostResolvesToDefault ==
    \A r \in RequestIds :
        /\ Resolved(r)
        /\ reqs[r].host \notin {NoHost, <<>>}
        /\ Unlisted(reqs[r].host)
        => reqs[r].targetModule = config.default.serverName

\* ASCII lower-casing of the letters a Host header is built from
LowerChar(c) == IF c = "A" THEN "a" ELSE c
Lower(s) == [j \in 1..Len(s) |-> LowerChar(s[j])]

\* The Host header h is the domain d up to letter case, with or without a port
HostIsIgnoringCase(h, d) ==
    \/ Lower(h) = Lower(d)
    \/ Len(h) > Len(d) /\ Lower(SubSeq(h, 1, Len(d))) = Lower(d) /\ h[Len(d) + 1] = ":"

\* C3 as stated: a Host that differs from a configured domain d only in letter
\* case and port resolves to the application d itself resolves to.
C3_MatchingIgnoresCaseAndPort ==
    \A r \in RequestIds : \A ik \in DeclaredDomains :
        /\ Resolved(r)
        /\ PlainDomain(DomainAt(ik))
        /\ HostIsIgnoringCase(reqs[r].host, DomainAt(ik))
        => reqs[r].targetModule = domainMap[DomainAt(ik)]

\* The request path begins with one of the application's skipSPA prefixes
MatchesSkipPrefix(i, url) ==
    \E k \in 1..Len(config.servers[i].skipSPA) :
        LET p == config.servers[i].skipSPA[k]
        IN  Len(p) <= Len(url) /\ \A j \in 1..Len(p) : url[j] = p[j]

\* C4: a request routed to application A whose path starts with one of A's
\* skipSPA prefixes is passed on by the SPA dispatcher, which sends neither
\* an HTML file nor a 404 for it.
C4_SkippedPathIsDeferred ==
    \A r \in RequestIds : \A i \in 1..Len(config.servers) :
        /\ Dispatched(r)
        /\ reqs[r].serverIdx = i
        /\ MatchesSkipPrefix(i, reqs[r].url)
        => /\ reqs[r].spaDecision = "skip"
           /\ reqs[r].answeredBy # "spa"
           /\ reqs[r].htmlPath = NoFile
           /\ reqs[r].file = NoFile

\* A longer path under the second of the skip prefixes was handed on and
\* answered by an application handler
C4_Witness ==
    \E r \in RequestIds :
        /\ reqs[r].serverIdx = 2
        /\ Len(config.servers[2].skipSPA) > 1
        /\ reqs[r].url = <<"/", "/", "x">>
        /\ reqs[r].spaDecision = "skip"
        /\ reqs[r].answeredBy = "app"

\* The one HTML file of application i: its paths.public and paths.html under
\* dist/public of the working directory
HtmlFileOf(i) ==
    <<"<cwd>", "dist", "public", config.servers[i].public, config.servers[i].html>>

\* C5: for a request routed to A whose path matches no skipSPA prefix the SPA
\* dispatcher tries exactly A's HTML file whatever the path is; when the file
\* is absent it answers 404 naming A and no later handler runs.
C5_OneHtmlFilePerApplication ==
    \A r \in RequestIds : \A i \in 1..Len(config.servers) :
        /\ Dispatched(r)
        /\ reqs[r].serverIdx = i
        /\ ~MatchesSkipPrefix(i, reqs[r].url)
        => /\ reqs[r].htmlPath = HtmlFileOf(i)
           /\ reqs[r].pc = "done"
           /\ reqs[r].answeredBy = "spa"
           /\ \/ /\ reqs[r].spaDecision = "missing"
                 /\ reqs[r].status = 404
                 /\ reqs[r].bodyModule = config.servers[i].name
                 /\ reqs[r].file = NoFile
              \/ /\ reqs[r].spaDecision = "serve"
                 /\ reqs[r].file = HtmlFileOf(i)

\* A deep path of the second application found its HTML file absent
C5_Witness ==
    \E r \in RequestIds :
        /\ reqs[r].serverIdx = 2
        /\ reqs[r].url = <<"/", "x", "x">>
        /\ reqs[r].spaDecision = "missing"
        /\ reqs[r].status = 404
        /\ reqs[r].bodyModule = "beta"
        /\ reqs[r].htmlPath = HtmlFileOf(2)

-----------------------------------------------------------------------------
(* Properties of startup and shutdown (Spec, SpecUndisturbed) *)

\* The document startup is to load: the secret file's when that file holds
\* one, else the local file's
ConfigDocument ==
    IF files.secret = "valid" THEN files.secretDoc ELSE files.localDoc

\* The applications of the configuration document on disk
Apps == 1..Len(ConfigDocument.servers)

\* Application i's module can be imported and exports its setup function
Loads(i) == modules[i].import = "ok" /\ modules[i].export \in {"sync", "async"}

\* The configuration document can be read
ConfigReadable ==
    files.secret = "valid" \/ (files.secret = "absent" /\ files.local = "valid")

\* loadAllModules has visited every application
LoadingDone ==
    /\ config = ConfigDocument
    /\ pc = "loading" => cursor > Len(config.servers)

\* setupAllMicroservers has visited every application
SetupDone ==
    /\ config = ConfigDocument
    /\ \/ pc = "setup" /\ cursor > Len(config.servers)
       \/ pc \in {"listening", "running"}

\* An initializer has been invoked for application i
InvokedFor(i) == \E k \in 1..Len(invocations) : invocations[k].server = i

HasInstance(i) == ConfigDocument.servers[i].name \in DOMAIN instances

\* Application i's module is the only one missing and all the others load
OnlyMissing(i) ==
    /\ modules[i].import = "missing"
    /\ \A j \in Apps \ {i} : Loads(j)

\* No other application declares application i's setupFunction name
OwnFunctionName(i) ==
    \A j \in Apps \ {i} :
        ConfigDocument.servers[j].setupFunction # ConfigDocument.servers[i].setupFunction

\* What C6 promises for the application i whose module is missing
MissingModuleOutcome(i) ==
    /\ LoadingDone => /\ failedModuleCount = 1
                      /\ loadedModuleCount = Len(config.servers) - 1
    /\ ~InvokedFor(i)
    /\ ~HasInstance(i)
    /\ SetupDone => \A j \in Apps \ {i} : InvokedFor(j)

C7_NoModuleLoadedIsFatal ==
    ConfigReadable /\ (\A i \in Apps : ~Loads(i))
    => /\ invocations = <<>>
       /\ instances = EmptyMap
       /\ ~listening /\ ~isRunning
       /\ pc \in {"boot", "loading", "exited"}
       /\ exitCode \in {-1, 1}
       /\ pc = "exited" <=> exitCode = 1

\* Two applications, one missing and one without its export: exit code 1
C7_Witness ==
    /\ ConfigReadable
    /\ Len(ConfigDocument.servers) = 2
    /\ modules[1].import = "missing"
    /\ modules[2].import = "ok" /\ modules[2].export = "absent"
    /\ failedModuleCount = 2
    /\ pc = "exited" /\ exitCode = 1

\* C8 as stated (no signal and no outside fault): the process shuts down or
\* exits only when the configuration is unreadable or no module loaded; with
\* at least one loaded module no load or initializer failure stops it.
C8_OnlyConfigOrZeroModulesAbort ==
    isShuttingDown \/ exitCode # -1
    => ~ConfigReadable \/ (\A i \in Apps : ~Loads(i))

\* The initializer invoked for application i failed: it threw, or it is async
\* and its promise rejects
InitializerFailedFor(i) ==
    \E k \in 1..Len(invocations) :
        /\ invocations[k].server = i
        /\ modules[invocations[k].origin].outcome = "throws"

\* C9 as stated: when the initializer of an application fails (throws, or is
\* async and rejects) the initializers of the later applications are still
\* invoked and the failed application has no instance entry.
C9_FailedInitializerIsSkipped ==
    \A i \in Apps :
        InitializerFailedFor(i)
        => /\ ~HasInstance(i)
           /\ SetupDone =>
                \A j \in Apps :
                    j > i /\ ConfigDocument.servers[j].setupFunction \in DOMAIN setupFunctions
                    => InvokedFor(j)

\* The instances whose registered value exposes a cleanup function
WithCleanup ==
    {n \in DOMAIN instances : instances[n].instance.cleanup # "none"}

\* C10: when the cleanup of one instance throws or rejects, cleanupAll still
\* invokes the cleanup of every other instance once, returns only after all
\* started cleanups have settled, and never throws.
C10_CleanupAllSurvivesFailures ==
    /\ smShutdown # "idle"
    /\ \E n \in WithCleanup : instances[n].instance.cleanup \in {"throws", "rejects"}
    => /\ \A n \in WithCleanup : n \in DOMAIN cleanups /\ cleanups[n].calls = 1
       /\ smShutdown # "threw"
       /\ smShutdown \in {"closing", "done"} =>
            \A n \in WithCleanup : cleanups[n].state # "pending"

\* The first instance's cleanup threw, the second's fulfilled afterwards, and
\* the shutdown went on to close the listener
C10_Witness ==
    /\ smShutdown = "done"
    /\ "alpha" \in DOMAIN cleanups /\ cleanups["alpha"].state = "threw"
    /\ "beta" \in DOMAIN cleanups /\ cleanups["beta"].state = "fulfilled"
    /\ cleanups["alpha"].calls = 1 /\ cleanups["beta"].calls = 1

\* The initializer invoked for application i produced a handle with cleanup
ProducedCleanup(i) ==
    \E k \in 1..Len(invocations) :
        /\ invocations[k].server = i
        /\ modules[invocations[k].origin].outcome = "returns"
        /\ modules[invocations[k].origin].handle.cleanup # "none"

\* C11 as stated: when the process has exited after a graceful shutdown, the
\* cleanup of every registered application whose initializer (async ones
\* included) produced a handle with cleanup has been invoked exactly once.
C11_GracefulShutdownCleansEveryHandle ==
    shutdownMode = "graceful" /\ exitCode # -1
    => \A i \in Apps :
          HasInstance(i) /\ ProducedCleanup(i)
          => /\ ConfigDocument.servers[i].name \in DOMAIN cleanups
             /\ cleanups[ConfigDocument.servers[i].name].calls = 1

\* C12: whatever signals, uncaught exceptions and unhandled rejections arrive,
\* ServerManager.gracefulShutdown (hence cleanupAll) is started at most once:
\* once, exactly when a shutdown is in progress.
C12_ShutdownStartedAtMostOnce ==
    /\ shutdownCalls <= 1
    /\ shutdownCalls = 1 <=> isShuttingDown
    /\ \A n \in DOMAIN cleanups : cleanups[n].calls <= 1

\* A fault arrived while a signal-driven shutdown was in progress and did not
\* start the cleanup routine again
C12_Witness ==
    /\ shutdownMode = "graceful"
    /\ faulted
    /\ shutdownCalls = 1
    /\ \E n \in DOMAIN cleanups : cleanups[n].calls = 1

\* C13: once the ErrorHandler has begun a shutdown the process eventually
\* exits, even when a cleanup never settles or the listener never closes: the
\* 30s or 5s timeout forces the exit.
C13_ShutdownAlwaysExits == isShuttingDown ~> (exitCode # -1)

\* The process has exited by its timeout while a cleanup was still pending
C13_Witness ==
    /\ exitCode # -1
    /\ shutdownTimer = "fired"
    /\ smShutdown = "cleanup"
    /\ \E n \in DOMAIN cleanups :
          cleanups[n].state = "pending" /\ instances[n].instance.cleanup = "hangs"

\* C14 as stated: once an uncaught exception or unhandled rejection has been
\* handled by the global handlers a shutdown with its timeout is in progress,
\* and when the process has exited its exit code is not zero.
C14_FaultExitsNonZero ==
    faulted => /\ isShuttingDown /\ shutdownTimer # "off"
               /\ exitCode # 0

\* C15 as stated: the listener accepts connections only when the
\* initialization of every application has completed or been skipped, the
\* promises of async initializers included.
C15_ListenerWaitsForInitializers ==
    listening => /\ SetupDone
                 /\ \A i \in DOMAIN promises : promises[i].state # "pending"

\* C16: when the first initializer is invoked the loading pass is over: every
\* configured application has been registered or counted as failed.
C16_LoadingPrecedesSetup ==
    invocations # <<>>
    => /\ isLoaded
       /\ pc \notin {"boot", "loading"}
       /\ loadedModuleCount + failedModuleCount = Len(config.servers)
       /\ \A i \in Apps :
             Loads(i) => ConfigDocument.servers[i].setupFunction \in DOMAIN setupFunctions

\* The first of two initializers has just been invoked; one module had loaded
\* and one had failed
C16_Witness ==
    /\ pc = "setup"
    /\ Len(config.servers) = 2
    /\ Len(invocations) = 1
    /\ loadedModuleCount = 1 /\ failedModuleCount = 1
    /\ ~Loads(1) /\ Loads(2)

-----------------------------------------------------------------------------
(* Properties of the handlers around the Domain Router (SpecRouting, SpecHealth) *)

\* C17 as stated: no component processes or answers a request before the
\* Domain Router has attached the routing context to it.
C17_RouterRunsFirst ==
    \A r \in RequestIds :
        reqs[r].pc \notin {"idle", "basic"} \/ reqs[r].answeredBy # "none"
        => Resolved(r)

\* C18 as stated: a GET /api/health request that the body parsers let through
\* is answered with the health snapshot, whichever application its host
\* resolves to and whatever that application's skip list contains.
C18_HealthAlwaysAnswered ==
    \A r \in RequestIds :
        /\ reqs[r].url = UrlHealth
        /\ reqs[r].pc = "done"
        /\ reqs[r].answeredBy # "basic"
        => /\ reqs[r].answeredBy = "health"
           /\ reqs[r].status = 200
           /\ reqs[r].body = "health snapshot"

\* C19: in a health snapshot the stats map has exactly one entry per instance
\* registry key, an instance whose getStats throws has the error entry, and the
\* request is answered with status 200.
C19_ThrowingGetStatsIsContained ==
    \A r \in RequestIds :
        reqs[r].answeredBy = "health"
        => /\ reqs[r].status = 200
           /\ reqs[r].body = "health snapshot"
           /\ DOMAIN reqs[r].stats = DOMAIN instances
           /\ \A n \in DOMAIN instances :
                 instances[n].instance.getStats = "throws"
                 => reqs[r].stats[n].status = "error"

\* A snapshot with the error entry of one application next to the statistics
\* of the other
C19_Witness ==
    \E r \in RequestIds :
        /\ reqs[r].answeredBy = "health"
        /\ reqs[r].status = 200
        /\ DOMAIN reqs[r].stats = {"alpha", "beta"}
        /\ instances["alpha"].instance.getStats = "throws"
        /\ reqs[r].stats["alpha"].status = "error"
        /\ reqs[r].stats["beta"].status = "stats"

\* The initializer invoked for application i produced a handle with getStats
\* that returns
ProducedGetStats(i) ==
    \E k \in 1..Len(invocations) :
        /\ invocations[k].server = i
        /\ modules[invocations[k].origin].outcome = "returns"
        /\ modules[invocations[k].origin].handle.getStats = "returns"

\* C20 as stated: in a health snapshot the stats entry of every registered
\* application whose initializer (async ones included) produced a handle with
\* getStats is what that handle's getStats returns.
C20_StatsComeFromTheHandle ==
    \A r \in RequestIds : \A i \in Apps :
        /\ reqs[r].answeredBy = "health"
        /\ reqs[r].status = 200
        /\ HasInstance(i) /\ ProducedGetStats(i)
        => /\ ConfigDocument.servers[i].name \in DOMAIN reqs[r].stats
           /\ reqs[r].stats[ConfigDocument.servers[i].name].status = "stats"
           /\ reqs[r].stats[ConfigDocument.servers[i].name].by = i

-----------------------------------------------------------------------------
(* Properties of the setup options and of configuration loading (Spec) *)

\* C21: every invocation of an initializer passes options whose shouldStart
\* is false, whose serverConfig is the application's own configuration entry
\* and whose serverId / serverName are that entry's id / name.
C21_OptionsNeverStartAListener ==
    \A k \in 1..Len(invocations) :
        LET entry == config.servers[invocations[k].server]
            options == invocations[k].options
        IN  /\ DOMAIN options = {"shouldStart", "serverConfig", "serverId", "serverName"}
            /\ options.shouldStart = FALSE
            /\ options.serverConfig = entry
            /\ options.serverId = entry.id
            /\ options.serverName = entry.name

\* The first application was set up with the initializer the second one's
\* module exports, and still received its own entry, id and name
C21_Witness ==
    /\ Len(invocations) = 2
    /\ invocations[1].server = 1 /\ invocations[1].origin = 2
    /\ invocations[1].options.serverName = "alpha"
    /\ invocations[1].options.serverConfig = config.servers[1]
    /\ invocations[2].options.serverName = "beta"
    /\ invocations[2].options.shouldStart = FALSE

\* Startup has stopped for want of a configuration: nothing was loaded, no
\* middleware of the router exists, and the process has exited with code 1
\* (or is about to, before its first step)
FatalConfiguration ==
    /\ config = NoConfig
    /\ domainMap = EmptyObject
    /\ setupFunctions = EmptyMap /\ invocations = <<>>
    /\ ~listening /\ ~isRunning
    /\ \A r \in DOMAIN reqs : reqs[r] = IdleRequest
    /\ \/ pc = "boot" /\ exitCode = -1
       \/ pc = "exited" /\ exitCode = 1

\* C24: the secret file is used whenever it exists, the local file only when
\* it does not, and the configuration is one of the two documents, whole; a
\* secret file that cannot be read or parsed is fatal whatever the local file
\* holds, and so is a missing or unparsable local file when no secret file
\* exists: the process exits with code 1, no routing is installed and no
\* request is served.
C24_SecretFileOrLocalFileNeverBoth ==
    /\ files.secret = "valid" =>
            IF pc = "boot" THEN config = NoConfig ELSE config = files.secretDoc
    /\ files.secret = "broken" => FatalConfiguration
    /\ files.secret = "absent" /\ files.local = "valid" =>
            IF pc = "boot" THEN config = NoConfig ELSE config = files.localDoc
    /\ files.secret = "absent" /\ files.local # "valid" => FatalConfiguration

\* The secret file could not be parsed, the local file was fine, and the
\* process has exited with code 1 without a configuration
C24_Witness ==
    /\ files.secret = "broken" /\ files.local = "valid"
    /\ files.localDoc # NoConfig
    /\ config = NoConfig
    /\ pc = "exited" /\ exitCode = 1

\* Applications i and j declare the same setupFunction name, both modules
\* load, and j is the last application to load a function of that name
LastOfSharedName(i, j) ==
    /\ i < j
    /\ ConfigDocument.servers[i].setupFunction = ConfigDocument.servers[j].setupFunction
    /\ Loads(i) /\ Loads(j)
    /\ \A k \in Apps :
          k > j /\ Loads(k)
          => ConfigDocument.servers[k].setupFunction # ConfigDocument.servers[j].setupFunction

\* C30: when two applications declare the same setupFunction name and both
\* modules load, after the loading pass the registry's entry for the name is
\* the initializer of the later-loaded module, and both applications are set
\* up by invoking that initializer.
C30_SharedNameBindsLaterInitializer ==
    \A i, j \in Apps :
        /\ ConfigReadable
        /\ pc \notin {"boot", "loading"}
        /\ LastOfSharedName(i, j)
        => LET name == ConfigDocument.servers[j].setupFunction
           IN  /\ name \in DOMAIN setupFunctions
               /\ setupFunctions[name] = j
               /\ \A k \in 1..Len(invocations) :
                     invocations[k].server \in {i, j} => invocations[k].origin = j
               /\ SetupDone => InvokedFor(i) /\ InvokedFor(j)

\* Both applications were set up with the second module's initializer: the
\* first one's own initializer, which throws, was never invoked
C30_Witness ==
    /\ ConfigReadable
    /\ Len(ConfigDocument.servers) = 2
    /\ LastOfSharedName(1, 2)
    /\ modules[1].outcome = "throws" /\ modules[2] = SyncModule
    /\ pc = "running"
    /\ Len(invocations) = 2
    /\ invocations[1].origin = 2 /\ invocations[2].origin = 2
    /\ HasInstance(1) /\ HasInstance(2)

-----------------------------------------------------------------------------
(* Properties of the shutdown sequence and of the registries *)

\* server.close has been called
CloseInitiated == smShutdown \in {"closing", "done"}

-----------------------------------------------------------------------------
(* Properties of the domain map with duplicate domains (SpecRouting) *)

\* Two applications declare the same domain
DuplicateDomain ==
    \E ik, jk \in DeclaredDomains : ik[1] # jk[1] /\ DomainAt(ik) = DomainAt(jk)

\* C25: when two applications declare the same domain the domain map is
\* built (the process serves), each declared domain, the reserved key
\* 'default' aside, maps to the last application that declares it, and a
\* request whose Host is a duplicated domain is routed to the later one.
C25_LaterDeclarerWinsDuplicate ==
    DuplicateDomain =>
        /\ exitCode = -1 /\ listening
        /\ \A ik \in DeclaredDomains :
              DomainAt(ik) # KeyDefault /\ LastToDeclare(ik[1], DomainAt(ik))
              => /\ DomainAt(ik) \in DOMAIN domainMap
                 /\ domainMap[DomainAt(ik)] = config.servers[ik[1]].name
        /\ \A r \in RequestIds : \A ik, jk \in DeclaredDomains :
              /\ Resolved(r)
              /\ ik[1] < jk[1] /\ DomainAt(ik) = DomainAt(jk)
              /\ reqs[r].host = DomainAt(jk)
              => RoutedTo(r, jk[1])

\* Both applications declare 'a' and the first also 'aa': a request for 'a'
\* was served the second application's page while 'aa' stays with the first
C25_Witness ==
    /\ config.servers[1].domains = <<DomA, DomAA>>
    /\ config.servers[2].domains = <<DomA>>
    /\ domainMap[DomA] = "beta" /\ domainMap[DomAA] = "alpha"
    /\ \E r \in RequestIds :
          /\ reqs[r].host = DomA
          /\ RoutedTo(r, 2)
          /\ reqs[r].spaDecision = "serve"
          /\ reqs[r].file = HtmlFileOf(2)

-----------------------------------------------------------------------------
(* Properties of the configuration endpoint (SpecConfig) *)

\* The response carries the configuration and the registries
CarriesConfiguration(r) == reqs[r].body = "configuration"

-----------------------------------------------------------------------------
(* Properties of requests in flight together (SpecConcurrent) *)

\* No application of the configuration has the name
NoEntryFor(name) ==
    \A i \in 1..Len(config.servers) : config.servers[i].name # name

\* C22: a request whose resolved application name has no configuration entry
\* is answered by the SPA dispatcher with status 500 and no HTML file; the
\* listener keeps running, and a request to the host of a configured
\* application is routed to it and dispatched to its own HTML file, whatever
\* the other requests met.
C22_UnknownApplicationIsContained ==
    /\ exitCode = -1 /\ listening
    /\ \A r \in ConcurrentIds :
          Dispatched(r) /\ NoEntryFor(reqs[r].targetModule)
          => /\ reqs[r].pc = "done"
             /\ reqs[r].answeredBy = "spa"
             /\ reqs[r].status = 500
             /\ reqs[r].htmlPath = NoFile /\ reqs[r].file = NoFile
    /\ \A r \in ConcurrentIds : \A ik \in DeclaredDomains :
          /\ Resolved(r)
          /\ PlainDomain(DomainAt(ik)) /\ LastToDeclare(ik[1], DomainAt(ik))
          /\ HostIs(reqs[r].host, DomainAt(ik))
          => /\ RoutedTo(r, ik[1])
             /\ Dispatched(r) /\ ~MatchesSkipPrefix(ik[1], reqs[r].url) =>
                   /\ reqs[r].spaDecision \in {"serve", "missing"}
                   /\ reqs[r].htmlPath = HtmlFileOf(ik[1])

\* The default names an application that does not exist: a request without a
\* Host header was answered 500 and a request for the second application's
\* domain was served that application's page
C22_Witness ==
    /\ config.default.serverName = "ghost"
    /\ reqs[1].host = NoHost /\ reqs[1].targetModule = "ghost"
    /\ reqs[1].pc = "done" /\ reqs[1].status = 500
    /\ reqs[2].host = DomAA /\ RoutedTo(2, 2)
    /\ reqs[2].pc = "done" /\ reqs[2].status = 200
    /\ reqs[2].file = HtmlFileOf(2)

\* What the router and the dispatcher decide for a request with this Host and
\* path when it is the only one: the application name, and "error" (no such
\* application), "skip" (passed on) or "html" (the application's HTML file is
\* looked up on disk)
AloneTarget(host) == ResolveTarget(domainMap, SplitColonFirst(FullHost(host)))

AloneDispatch(host, url) ==
    IF NoEntryFor(AloneTarget(host)) THEN "error"
    ELSE LET i == CHOOSE j \in 1..Len(config.servers) :
                      config.servers[j].name = AloneTarget(host)
         IN  IF MatchesSkipPrefix(i, url) THEN "skip" ELSE "html"

DispatchOf(r) ==
    IF reqs[r].spaDecision \in {"serve", "missing"} THEN "html" ELSE reqs[r].spaDecision

\* C28: handling requests leaves the configuration and the domain map as
\* startup built them, and with two requests in flight in any interleaving
\* each one is resolved and dispatched as its own Host and path alone
\* decide: as if it were alone, and as the other one when both agree on them.
C28_RequestsAreIndependent ==
    /\ config = ConfigDocument
    /\ domainMap = BuildDomainMap(ConfigDocument)
    /\ \A r \in ConcurrentIds :
          /\ Resolved(r) => reqs[r].targetModule = AloneTarget(reqs[r].host)
          /\ Dispatched(r) => DispatchOf(r) = AloneDispatch(reqs[r].host, reqs[r].url)
    /\ \A r, q \in ConcurrentIds :
          /\ reqs[r].host = reqs[q].host /\ Resolved(r) /\ Resolved(q)
              => /\ reqs[r].targetModule = reqs[q].targetModule
                 /\ reqs[r].serverIdx = reqs[q].serverIdx
          /\ reqs[r].host = reqs[q].host /\ reqs[r].url = reqs[q].url
              /\ Dispatched(r) /\ Dispatched(q)
              => DispatchOf(r) = DispatchOf(q)

\* Two requests for different applications were in flight together: the
\* first was resolved while the second waited for the dispatcher, and each
\* was served its own application's page
C28_Witness ==
    /\ reqs[1].host = DomA /\ reqs[2].host = DomAA
    /\ reqs[1].pc = "done" /\ reqs[2].pc = "done"
    /\ RoutedTo(1, 1) /\ RoutedTo(2, 2)
    /\ reqs[1].file = HtmlFileOf(1) /\ reqs[2].file = HtmlFileOf(2)

-----------------------------------------------------------------------------
(* Properties of the registries over the whole process (SpecServing) *)

\* C27: once the setup pass is over no step of the process (request, health
\* check, configuration check, settling promise, signal, fault, cleanup,
\* close, timer, exit) changes the Module Registry or the Instance Registry.
C27_RegistriesFrozenAfterSetup ==
    [][SetupDone => setupFunctions' = setupFunctions /\ instances' = instances]_vars

\* The first application's module was missing: a health check was answered
\* while a shutdown had run its cleanups and closed the listener, and the
\* application is still in neither registry while the second one is in both
C27_Witness ==
    /\ SetupDone
    /\ modules[1].import = "missing"
    /\ DOMAIN setupFunctions = {"setupBeta"} /\ DOMAIN instances = {"beta"}
    /\ smShutdown = "closing"
    /\ "beta" \in DOMAIN cleanups /\ cleanups["beta"].state = "fulfilled"
    /\ \E r \in RequestIds : reqs[r].answeredBy = "health" /\ reqs[r].pc = "done"

-----------------------------------------------------------------------------
(* C29 *)

\* How often the initializer of config.servers[i] has been invoked in invs
TimesInvoked(invs, i) == Cardinality({n \in DOMAIN invs : invs[n].server = i})

\* C29: whatever calls of initialise() and start() are made, an initializer is
\* invoked only while the listener has not started and never a second time for
\* the same application, and an initialise() that finds isInitialised set
\* leaves the configuration, the registries and the counters as they are
C29_InitializersRunOnceBeforeListening ==
    [][/\ invocations' # invocations =>
            /\ ~listening
            /\ \A i \in 1..Len(config'.servers) : TimesInvoked(invocations', i) <= 1
       /\ (isInitialised /\ Len(repeats') > Len(repeats)) =>
            UNCHANGED <<config, domainMap, managerVars, invocations>>]_vars

\* C29, the calls that do behave: an initialise() made after a completed one
\* loads nothing, sets nothing up and invokes no initializer
C29_CompletedInitialiseIsFinal ==
    [][(isInitialised /\ Len(repeats') > Len(repeats)) =>
            /\ UNCHANGED <<config, domainMap, managerVars, invocations, promises>>
            /\ repeats'[Len(repeats')].pc \in {"skipped", "threw"}]_vars

\* C29: a second initialise() made while the first waited for an import() has
\* invoked the first application's initializer again
C29_Overlap ==
    /\ Len(repeats) > 0
    /\ repeats[1].call = "initialise" /\ repeats[1].pc \in {"setup", "returned"}
    /\ TimesInvoked(invocations, 1) = 2

\* C29: a repeated initialise() was skipped after the first had completed
C29_Skipped ==
    /\ Len(repeats) > 0
    /\ repeats[1].call = "initialise" /\ repeats[1].pc = "skipped"
    /\ TimesInvoked(invocations, 1) = 1

-----------------------------------------------------------------------------
(* C38 *)

\* loadAllModules has left its loop: it is about to test the count, has thrown
\* or has returned
LoadLoopFinished ==
    \/ pc = "loading" /\ cursor > Len(config.servers)
    \/ pc \in {"setup", "listening", "running"}
    \/ pc = "exited" /\ ConfigReadable

\* C38: once loadAllModules has visited every configured application the two
\* counters add up to the number of applications and the module registry has
\* at most loadedModuleCount entries; isLoaded is set only with a module loaded
C38_CountersAccountForEveryApplication ==
    /\ LoadLoopFinished =>
          /\ loadedModuleCount + failedModuleCount = Len(config.servers)
          /\ Cardinality(DOMAIN setupFunctions) <= loadedModuleCount
    /\ isLoaded => loadedModuleCount >= 1

\* C38: two applications loaded under one setup function name, so that the
\* registry holds fewer entries than modules were counted
C38_Witness ==
    /\ LoadLoopFinished /\ isLoaded
    /\ Len(config.servers) = 2
    /\ loadedModuleCount = 2 /\ failedModuleCount = 0
    /\ Cardinality(DOMAIN setupFunctions) = 1

-----------------------------------------------------------------------------
(* C37 *)

\* C37: in MicroserverManager.getStats, active never exceeds total
C37_ActiveNeverExceedsTotal == getStats.active <= getStats.total

-----------------------------------------------------------------------------
(* C36 *)

\* C36: every key of the instance registry names a configured application
\* whose setup function name is in the module registry, and the health
\* snapshot reports no more active instances than configured applications
C36_InstancesAreConfiguredApplications ==
    /\ \A name \in DOMAIN instances :
          \E i \in 1..Len(config.servers) :
             /\ config.servers[i].name = name
             /\ config.servers[i].setupFunction \in DOMAIN setupFunctions
    /\ buildHealthMicroservers.active <= buildHealthMicroservers.total

\* C36: two applications set up through one shared setup function while the
\* listener runs: the snapshot counts both
C36_Witness ==
    /\ pc = "running"
    /\ Len(config.servers) = 2
    /\ Cardinality(DOMAIN setupFunctions) = 1
    /\ buildHealthMicroservers.active = 2
    /\ buildHealthMicroservers.total = 2

-----------------------------------------------------------------------------
(* C32 *)

\* C32: ServerManager.gracefulShutdown stops the keep-alive timer before it
\* begins the cleanups, and from the moment the cleanups have begun the
\* listener accepts no new request
C32_NoConnectionAcceptedAfterCleanupBegan ==
    [][/\ (smShutdown = "idle" /\ smShutdown' # "idle") => ~keepAlive'
       /\ \A r \in DOMAIN reqs :
             (reqs[r].pc = "idle" /\ reqs'[r].pc = "basic") => smShutdown = "idle"]_vars

-----------------------------------------------------------------------------
(* C34 *)

\* C34: the process has exited with code 0 only after a graceful shutdown,
\* begun by a signal, whose ServerManager.gracefulShutdown settled with every
\* cleanup settled and the listener closed, and whose 30s timer was cleared
\* before it fired; after a timer that fired or in an emergency shutdown the
\* exit code is not 0
C34_ZeroExitOnlyAfterCleanShutdown ==
    /\ exitCode = 0 =>
          /\ shutdownMode = "graceful"
          /\ smShutdown = "done"
          /\ shutdownTimer = "cleared"
          /\ AllSettled(cleanups)
          /\ ~listening /\ ~isRunning
    /\ (exitCode # -1 /\ (shutdownMode = "emergency" \/ shutdownTimer = "fired")) =>
          exitCode # 0

\* C34: an exit with code 0 after an asynchronous cleanup was awaited, in a
\* process that also met a fault while it was shutting down
C34_Witness ==
    /\ exitCode = 0
    /\ faulted
    /\ \E name \in DOMAIN cleanups : cleanups[name].state = "fulfilled"

-----------------------------------------------------------------------------
(* C33 *)

\* A further call of start() is made in this step
StartCalled ==
    /\ Len(repeats') = Len(repeats) + 1
    /\ repeats'[Len(repeats')].call = "start"

\* C33: a start() made while initialise() has not completed throws without
\* reaching server.listen and changes nothing, a start() made on a running
\* server returns without reaching server.listen, and isRunning is never set
\* without isInitialised
C33_StartRequiresInitialise ==
    /\ [](isRunning => isInitialised)
    /\ [][StartCalled =>
            /\ ~isInitialised =>
                  /\ repeats'[Len(repeats')].pc = "threw"
                  /\ UNCHANGED <<routingVars, managerVars, serverVars, controlVars,
                                 shutdownVars>>
                  /\ ~isRunning' /\ ~listening'
            /\ isRunning =>
                  /\ repeats'[Len(repeats')].pc = "skipped"
                  /\ UNCHANGED <<serverVars, controlVars>>]_vars

\* C33: start() was called while the setup pass was still running and again
\* once the listener ran; the first call threw and the second was skipped
C33_Witness ==
    /\ Len(repeats) = 2
    /\ repeats[1] = Activation("start", "threw", 0)
    /\ repeats[2] = Activation("start", "skipped", 0)
    /\ isRunning /\ listening

-----------------------------------------------------------------------------
(* C35 *)

\* The /api/config handler has answered request r, which carried a non-empty
\* debug_token
AnsweredWithToken(r) ==
    /\ reqs[r].pc = "done" /\ reqs[r].answeredBy = "config"
    /\ reqs[r].token \notin {Undefined, ""}

-----------------------------------------------------------------------------
(* C31 *)

\* C31: a request that a route of an application answers is answered by a
\* route of the application its host resolved to
C31_HandlersAnswerOnlyTheirOwnHost ==
    \A r \in DOMAIN reqs :
        reqs[r].answeredBy = "app" => reqs[r].answeredApp = reqs[r].targetModule

\* C31, the routes that follow the integration guide: a request was answered
\* by a route of the application its host resolved to
C31_OwnRouteAnswered ==
    \E r \in DOMAIN reqs :
        /\ reqs[r].answeredBy = "app"
        /\ reqs[r].targetModule = "beta" /\ reqs[r].answeredApp = "beta"

=============================================================================
